---- MODULE Spec2Model ----
(***************************************************************************)
(* Model of the go-money package: the Money value type (money.go), the     *)
(* currency registry (currency.go) and the binary codec of Money.          *)
(*                                                                         *)
(* A currency code is a Go string; it is modelled as the sequence of its   *)
(* bytes (ASCII codes), which is what []byte(code) and string(data[:3])    *)
(* convert between.  A *Currency is modelled by the record it points to,   *)
(* the nil pointer by NilCurrency.  A decimal.Decimal is the pair          *)
(* (value, exp) standing for value * 10^exp.                               *)
(***************************************************************************)
EXTENDS Integers, Sequences, FiniteSets, TLC

VARIABLES currencies, m, data, ret

vars == <<currencies, m, data, ret>>

(***************************************************************************)
(* Bounds of the model.                                                    *)
(***************************************************************************)
\* largest |coefficient| a constructor is given and m keeps
MaxCoef == 1
\* largest |exponent| a constructor is given and m keeps
MaxExp == 1

(***************************************************************************)
(* Integer helpers (math/big semantics).                                   *)
(***************************************************************************)
AbsInt(a) == IF a < 0 THEN -a ELSE a

SignInt(a) == IF a < 0 THEN -1 ELSE IF a > 0 THEN 1 ELSE 0

\* big.Int.Quo: truncated division (rounds toward zero), b # 0
QuoInt(a, b) == SignInt(a) * SignInt(b) * (AbsInt(a) \div AbsInt(b))

\* big.Int.Rem: remainder of the truncated division, sign of the dividend
RemInt(a, b) == a - b * QuoInt(a, b)

RECURSIVE Pow10(_)
Pow10(n) == IF n <= 0 THEN 1 ELSE 10 * Pow10(n - 1)

MaxInt32 == 2147483647

MinInt32 == (-2147483647) - 1

InInt32(x) == MinInt32 <= x /\ x <= MaxInt32

(***************************************************************************)
(* Currency (currency.go).                                                 *)
(***************************************************************************)
USD == <<85, 83, 68>>

EUR == <<69, 85, 82>>

\* a 3-byte code that is in no registry
ZZZ == <<90, 90, 90>>

\* a 4-byte code, which AddCurrency accepts
USDT == <<85, 83, 68, 84>>

UnknownCurrencyCode == <<63, 63, 63>>

NilCurrency == [isNil |-> TRUE]

\* Grapheme, Template, DecPoint and Thousand are Go strings: sequences of
\* characters (a character outside ASCII is written by its name)
Currency(type, code, fraction, grapheme, template) ==
    [Type |-> type, Code |-> code, Fraction |-> fraction, Grapheme |-> grapheme,
     Template |-> template, DecPoint |-> <<".">>, Thousand |-> <<",">>]

\* the entries of the currencies table the model keeps
InitialCurrencies ==
    (USD :> Currency("FIAT", USD, 2, <<"$">>, <<"$", "1">>))
    @@ (EUR :> Currency("FIAT", EUR, 2, <<"euro">>, <<"$", "1">>))
    @@ (UnknownCurrencyCode :> Currency("UNKNOWN", UnknownCurrencyCode, 2, <<"$">>, <<"$", "1">>))

\* AddCurrency: insert or update an entry of the table
AddCurrencyTo(table, c) ==
    [code \in (DOMAIN table) \cup {c.Code} |-> IF code = c.Code THEN c ELSE table[code]]

\* GetCurrency: (c, ok)
GetCurrencyOk(table, code) == code \in DOMAIN table

GetCurrency(table, code) == IF code \in DOMAIN table THEN table[code] ELSE NilCurrency

getUnknownCurrency == Currency("FIAT", UnknownCurrencyCode, 2, <<"$">>, <<"1", "$">>)

\* the code of the bad-currency marker
BadCurrencyCode == <<66, 65, 68>>

\* getBadCurrency is called by the constructors and defined in no source file
getBadCurrency == Currency("UNKNOWN", BadCurrencyCode, 2, <<"$">>, <<"1", "$">>)

\* equals comparing the currency type instead of the code
CurrencyEqualsByType(c, oc) == c.Type = oc.Type

\* (c *Currency) equals(oc)
CurrencyEquals(c, oc) == c.Code = oc.Code

(***************************************************************************)
(* Decimal engine (github.com/shopspring/decimal), as money.go uses it.    *)
(***************************************************************************)
Dec(value, exp) == [value |-> value, exp |-> exp]

\* decimal.Zero is New(0, 1)
DecZero == Dec(0, 1)

\* The Decimal at exponent exp: exact when exp <= d.exp, truncated otherwise
DecRescale(d, exp) ==
    IF d.exp = exp THEN d
    ELSE IF exp > d.exp THEN Dec(QuoInt(d.value, Pow10(exp - d.exp)), exp)
    ELSE Dec(d.value * Pow10(d.exp - exp), exp)

MinExp(e1, e2) == IF e1 >= e2 THEN e2 ELSE e1

DecAdd(d, d2) ==
    LET e == MinExp(d.exp, d2.exp)
    IN Dec(DecRescale(d, e).value + DecRescale(d2, e).value, e)

DecSub(d, d2) ==
    LET e == MinExp(d.exp, d2.exp)
    IN Dec(DecRescale(d, e).value - DecRescale(d2, e).value, e)

DecNeg(d) == Dec(-d.value, d.exp)

DecAbs(d) == Dec(AbsInt(d.value), d.exp)

DecSign(d) == SignInt(d.value)

\* Mul panics when the sum of the exponents leaves int32
DecMulPanics(d, d2) == ~InInt32(d.exp + d2.exp)

DecMul(d, d2) == Dec(d.value * d2.value, d.exp + d2.exp)

DecShift(d, shift) == Dec(d.value, d.exp + shift)

\* Cmp comparing the coefficients as they are written
DecCmpCoefficients(d, d2) ==
    IF d.value < d2.value THEN -1 ELSE IF d.value > d2.value THEN 1 ELSE 0

DecCmp(d, d2) ==
    LET e == MinExp(d.exp, d2.exp)
        a == DecRescale(d, e).value
        b == DecRescale(d2, e).value
    IN IF a < b THEN -1 ELSE IF a > b THEN 1 ELSE 0

\* QuoRem, DivRound, Div and Mod panic on a zero divisor
DecDivPanics(d, d2) == d2.value = 0

\* QuoRem dividing with big.Int.DivMod, whose remainder is never negative
DecQuoRemEuclidean(d, d2, precision) ==
    LET scale == -precision
        e == d.exp - d2.exp - scale
        aa == IF e < 0 THEN d.value ELSE d.value * Pow10(e)
        bb == IF e < 0 THEN d2.value * Pow10(-e) ELSE d2.value
        scalerest == IF e < 0 THEN d.exp ELSE scale + d2.exp
        rem == aa % AbsInt(bb)
    IN <<Dec(QuoInt(aa - rem, bb), scale), Dec(rem, scalerest)>>

\* QuoRem: <<q, r>> with d = d2*q + r, q a multiple of 10^-precision
DecQuoRem(d, d2, precision) ==
    LET scale == -precision
        e == d.exp - d2.exp - scale
        aa == IF e < 0 THEN d.value ELSE d.value * Pow10(e)
        bb == IF e < 0 THEN d2.value * Pow10(-e) ELSE d2.value
        scalerest == IF e < 0 THEN d.exp ELSE scale + d2.exp
    IN <<Dec(QuoInt(aa, bb), scale), Dec(RemInt(aa, bb), scalerest)>>

\* DivRound: the quotient rounded half away from zero at 10^-precision
DecDivRound(d, d2, precision) ==
    LET qr == DecQuoRem(d, d2, precision)
        q == qr[1]
        r == qr[2]
        r2 == Dec(2 * AbsInt(r.value), r.exp + precision)
        c == DecCmp(r2, DecAbs(d2))
    IN IF c < 0 THEN q
       ELSE IF DecSign(d) * DecSign(d2) < 0 THEN DecSub(q, Dec(1, -precision))
       ELSE DecAdd(q, Dec(1, -precision))

DecMod(d, d2) == DecQuoRem(d, d2, 0)[2]

\* IntPart: the integer part, truncated toward zero
DecIntPart(d) == DecRescale(d, 0).value

\* decimal.DivisionPrecision-style division inside the engine and the package
\* variable DivisionPrecision of money.go (20 at start), scaled down so that
\* coefficients stay in the integer range of the model checker
DivisionPrecision == 2

\* Pow by the integer part n of the exponent: halving, as the engine recurses
RECURSIVE DecPowInt(_, _)
DecPowInt(d, n) ==
    IF n = 0 THEN Dec(1, 0)
    ELSE LET temp == DecPowInt(d, QuoInt(n, 2))
             sq == DecMul(temp, temp)
         IN IF RemInt(n, 2) = 0 THEN sq
            ELSE IF n > 0 THEN DecMul(sq, d)
            ELSE DecDivRound(sq, d, DivisionPrecision)

DecPowPanics(d, d2) == DecIntPart(d2) < 0 /\ d.value = 0

DecPow(d, d2) == DecPowInt(d, DecIntPart(d2))

\* Round: half away from zero at 10^-places
DecRound(d, places) ==
    LET r == DecRescale(d, (-places) - 1)
        v == IF r.value < 0 THEN r.value - 5 ELSE r.value + 5
    IN Dec(QuoInt(v, 10), -places)

\* RoundBank sending every half away from zero
DecRoundBankHalfAway(d, places) == DecRound(d, places)

\* RoundBank: half to even at 10^-places
DecRoundBank(d, places) ==
    LET round == DecRound(d, places)
        remainder == DecAbs(DecSub(d, round))
        half == Dec(5, (-places) - 1)
    IN IF DecCmp(remainder, half) = 0 /\ round.value % 2 # 0
       THEN IF round.value < 0 THEN Dec(round.value + 1, round.exp)
            ELSE Dec(round.value - 1, round.exp)
       ELSE round

\* Truncate: drop the digits after 10^-precision
\* Truncate rounding the digits it cuts
DecTruncateRounding(d, precision) ==
    IF precision >= 0 /\ -precision > d.exp THEN DecRound(d, precision) ELSE d

DecTruncate(d, precision) ==
    IF precision >= 0 /\ -precision > d.exp THEN DecRescale(d, -precision) ELSE d

\* Floor: big.Int.Div is Euclidean, the floor for a positive divisor
DecFloor(d) == IF d.exp >= 0 THEN d ELSE Dec(d.value \div Pow10(-d.exp), 0)

DecCeil(d) ==
    IF d.exp >= 0 THEN d
    ELSE LET p == Pow10(-d.exp)
         IN Dec((d.value \div p) + (IF d.value % p # 0 THEN 1 ELSE 0), 0)

CashIntervals == {5, 10, 15, 25, 50, 100}

\* RoundCash without the case of interval 15
DecRoundCashWithoutFifteen(interval) == interval \notin (CashIntervals \ {15})

DecRoundCashPanics(interval) == interval \notin CashIntervals

\* every interval rounding to ten hundredths
CashMultiplierOfTen(interval) == 10

\* the multiplier of each valid interval
CashMultiplier(interval) ==
    CASE interval = 5 -> 20
      [] interval = 10 -> 10
      [] interval = 15 -> 10
      [] interval = 25 -> 4
      [] interval = 50 -> 2
      [] OTHER -> 1

\* Go's a ^ b on naturals: bitwise exclusive or
RECURSIVE XorNat(_, _)
XorNat(a, b) ==
    IF a = 0 THEN b
    ELSE IF b = 0 THEN a
    ELSE 2 * XorNat(a \div 2, b \div 2) + ((a + b) % 2)

\* interval 15 first moves an amount ending in 0 or 5 down by dOne, so that the
\* half rounds down; dOne is New(10 ^ -exp, exp), with Go's ^ (exclusive or)
CashFifteenAdjust(d) ==
    IF d.exp < 0 /\ DecMod(Dec(d.value, 0), Dec(5, 0)).value = 0
    THEN DecSub(d, Dec(XorNat(10, -d.exp), d.exp))
    ELSE d

\* RoundCash: d.Mul(iVal).Round(0).Div(iVal).Truncate(2)
DecRoundCash(d, interval) ==
    LET iVal == Dec(CashMultiplier(interval), 0)
        dd == IF interval = 15 THEN CashFifteenAdjust(d) ELSE d
    IN DecTruncate(DecDivRound(DecRound(DecMul(dd, iVal), 0), iVal, DivisionPrecision), 2)

(***************************************************************************)
(* Money (money.go).                                                       *)
(***************************************************************************)
Money(amount, currency) == [amount |-> amount, currency |-> currency]

\* var m Money: a nil coefficient, which the engine reads as 0, and no currency
ZeroValueMoney == Money(Dec(0, 0), NilCurrency)

ZeroMoney == Money(DecZero, getUnknownCurrency)

\* what a call does: it returns (outs, err, int, bytes) or it panics (why)
Returns(outs) ==
    [status |-> "ok", why |-> "", outs |-> outs, err |-> FALSE, int |-> 0, bytes |-> <<>>]

ReturnsErr(outs) == [Returns(outs) EXCEPT !.err = TRUE]

ReturnsInt(i) == [Returns(<<>>) EXCEPT !.int = i]

ReturnsBytes(b) == [Returns(<<>>) EXCEPT !.bytes = b]

Panics(why) ==
    [status |-> "panic", why |-> why, outs |-> <<>>, err |-> FALSE, int |-> 0, bytes |-> <<>>]

NilDereference == "nil pointer dereference"

CurrencyMismatch == "mismatched currencies"

DivisionByZero == "decimal division by 0"

ExponentOverflow == "exponent overflows an int32"

BadInterval == "unsupported cash rounding interval"

\* ensureInitialized, on the method's copy of the Money
ensureInitialized(mo) ==
    IF mo.currency = NilCurrency THEN [mo EXCEPT !.currency = getUnknownCurrency] ELSE mo

\* the test every binary operation starts with
SameCurrency(mo, m2) ==
    CurrencyEquals(ensureInitialized(mo).currency, ensureInitialized(m2).currency)

\* Add building its result without the currency field
AddWithoutCurrency(mo, m2) ==
    LET a == ensureInitialized(mo)
        b == ensureInitialized(m2)
    IN IF ~CurrencyEquals(a.currency, b.currency) THEN Panics(CurrencyMismatch)
       ELSE Returns(<<Money(DecAdd(a.amount, b.amount), NilCurrency)>>)

Add(mo, m2) ==
    LET a == ensureInitialized(mo)
        b == ensureInitialized(m2)
    IN IF ~CurrencyEquals(a.currency, b.currency) THEN Panics(CurrencyMismatch)
       ELSE Returns(<<Money(DecAdd(a.amount, b.amount), a.currency)>>)

Sub(mo, m2) ==
    LET a == ensureInitialized(mo)
        b == ensureInitialized(m2)
    IN IF ~CurrencyEquals(a.currency, b.currency) THEN Panics(CurrencyMismatch)
       ELSE Returns(<<Money(DecSub(a.amount, b.amount), a.currency)>>)

Mul(mo, m2) ==
    LET a == ensureInitialized(mo)
        b == ensureInitialized(m2)
    IN IF ~CurrencyEquals(a.currency, b.currency) THEN Panics(CurrencyMismatch)
       ELSE IF DecMulPanics(a.amount, b.amount) THEN Panics(ExponentOverflow)
       ELSE Returns(<<Money(DecMul(a.amount, b.amount), a.currency)>>)

DivRound(mo, m2, precision) ==
    LET a == ensureInitialized(mo)
        b == ensureInitialized(m2)
    IN IF ~CurrencyEquals(a.currency, b.currency) THEN Panics(CurrencyMismatch)
       ELSE IF DecDivPanics(a.amount, b.amount) THEN Panics(DivisionByZero)
       ELSE Returns(<<Money(DecDivRound(a.amount, b.amount, precision), a.currency)>>)

Div(mo, m2) == DivRound(mo, m2, DivisionPrecision)

\* the quotient carries m's currency, the remainder m2's
QuoRem(mo, m2, precision) ==
    LET a == ensureInitialized(mo)
        b == ensureInitialized(m2)
    IN IF ~CurrencyEquals(a.currency, b.currency) THEN Panics(CurrencyMismatch)
       ELSE IF DecDivPanics(a.amount, b.amount) THEN Panics(DivisionByZero)
       ELSE LET qr == DecQuoRem(a.amount, b.amount, precision)
            IN Returns(<<Money(qr[1], a.currency), Money(qr[2], b.currency)>>)

Mod(mo, m2) ==
    LET a == ensureInitialized(mo)
        b == ensureInitialized(m2)
    IN IF ~CurrencyEquals(a.currency, b.currency) THEN Panics(CurrencyMismatch)
       ELSE IF DecDivPanics(a.amount, b.amount) THEN Panics(DivisionByZero)
       ELSE Returns(<<Money(DecMod(a.amount, b.amount), a.currency)>>)

Pow(mo, m2) ==
    LET a == ensureInitialized(mo)
        b == ensureInitialized(m2)
    IN IF ~CurrencyEquals(a.currency, b.currency) THEN Panics(CurrencyMismatch)
       ELSE IF DecPowPanics(a.amount, b.amount) THEN Panics(DivisionByZero)
       ELSE Returns(<<Money(DecPow(a.amount, b.amount), a.currency)>>)

Cmp(mo, m2) ==
    LET a == ensureInitialized(mo)
        b == ensureInitialized(m2)
    IN IF ~CurrencyEquals(a.currency, b.currency) THEN Panics(CurrencyMismatch)
       ELSE ReturnsInt(DecCmp(a.amount, b.amount))

Abs(mo) == LET a == ensureInitialized(mo) IN Returns(<<Money(DecAbs(a.amount), a.currency)>>)

Neg(mo) == LET a == ensureInitialized(mo) IN Returns(<<Money(DecNeg(a.amount), a.currency)>>)

Shift(mo, shift) ==
    LET a == ensureInitialized(mo) IN Returns(<<Money(DecShift(a.amount, shift), a.currency)>>)

\* Round handing its amount to RoundBank
RoundByRoundBank(mo, places) ==
    LET a == ensureInitialized(mo)
    IN Returns(<<Money(DecRoundBank(a.amount, places), a.currency)>>)

Round(mo, places) ==
    LET a == ensureInitialized(mo) IN Returns(<<Money(DecRound(a.amount, places), a.currency)>>)

\* RoundBank handing its amount to Round
RoundBankByRound(mo, places) ==
    LET a == ensureInitialized(mo) IN Returns(<<Money(DecRound(a.amount, places), a.currency)>>)

RoundBank(mo, places) ==
    LET a == ensureInitialized(mo)
    IN Returns(<<Money(DecRoundBank(a.amount, places), a.currency)>>)

RoundCash(mo, interval) ==
    LET a == ensureInitialized(mo)
    IN IF DecRoundCashPanics(interval) THEN Panics(BadInterval)
       ELSE Returns(<<Money(DecRoundCash(a.amount, interval), a.currency)>>)

Floor(mo) == LET a == ensureInitialized(mo) IN Returns(<<Money(DecFloor(a.amount), a.currency)>>)

Ceil(mo) == LET a == ensureInitialized(mo) IN Returns(<<Money(DecCeil(a.amount), a.currency)>>)

Truncate(mo, precision) ==
    LET a == ensureInitialized(mo)
    IN Returns(<<Money(DecTruncate(a.amount, precision), a.currency)>>)

\* Sign, Exponent, Coefficient, IntPart: accessors, on an initialized copy
Sign(mo) == ReturnsInt(DecSign(ensureInitialized(mo).amount))

Exponent(mo) == ReturnsInt(ensureInitialized(mo).amount.exp)

Coefficient(mo) == ReturnsInt(ensureInitialized(mo).amount.value)

IntPart(mo) == ReturnsInt(DecIntPart(ensureInitialized(mo).amount))

(***************************************************************************)
(* Constructors.  Each returns (Money, error): outs[1] and err.            *)
(***************************************************************************)
\* what every constructor returns for a code GetCurrency does not find
BadCurrencyResult == ReturnsErr(<<Money(DecZero, getBadCurrency)>>)

New(table, curr, value, exp) ==
    IF ~GetCurrencyOk(table, curr) THEN BadCurrencyResult
    ELSE Returns(<<Money(Dec(value, exp), GetCurrency(table, curr))>>)

NewFromBigInt(table, curr, value, exp) ==
    IF ~GetCurrencyOk(table, curr) THEN BadCurrencyResult
    ELSE Returns(<<Money(Dec(value, exp), GetCurrency(table, curr))>>)

\* A Go string of a decimal is the sequence of its characters
Digits == <<"0", "1", "2", "3", "4", "5", "6", "7", "8", "9">>

IsDigit(ch) == \E i \in 1..10 : Digits[i] = ch

DigitValue(ch) == (CHOOSE i \in 1..10 : Digits[i] = ch) - 1

RECURSIVE DigitsValue(_)
DigitsValue(s) ==
    IF s = <<>> THEN 0
    ELSE 10 * DigitsValue(SubSeq(s, 1, Len(s) - 1)) + DigitValue(s[Len(s)])

\* big.Int.SetString(s, 10): an optional sign and at least one digit
IntStringOk(s) ==
    LET body == IF s # <<>> /\ s[1] \in {"+", "-"} THEN Tail(s) ELSE s
    IN body # <<>> /\ \A i \in 1..Len(body) : IsDigit(body[i])

IntStringValue(s) ==
    IF s[1] = "-" THEN -DigitsValue(Tail(s))
    ELSE IF s[1] = "+" THEN DigitsValue(Tail(s))
    ELSE DigitsValue(s)

\* the positions of "." in s
PointPositions(s) == {i \in 1..Len(s) : s[i] = "."}

RECURSIVE TrimRightZeros(_)
TrimRightZeros(s) ==
    IF s # <<>> /\ s[Len(s)] = "0" THEN TrimRightZeros(SubSeq(s, 1, Len(s) - 1)) ELSE s

\* decimal.NewFromString of a string without exponent notation: [ok, dec]
DecNewFromString(s) ==
    LET points == PointPositions(s)
    IN IF Cardinality(points) > 1 THEN [ok |-> FALSE, dec |-> Dec(0, 0)]
       ELSE LET p == IF points = {} THEN Len(s) + 1 ELSE CHOOSE i \in points : TRUE
                decimalPart == TrimRightZeros(SubSeq(s, p + 1, Len(s)))
                intString == IF points = {} THEN s ELSE SubSeq(s, 1, p - 1) \o decimalPart
            IN IF ~IntStringOk(intString) THEN [ok |-> FALSE, dec |-> Dec(0, 0)]
               ELSE [ok |-> TRUE, dec |-> Dec(IntStringValue(intString), -Len(decimalPart))]

\* NewFromString keeping the currency it found when the string does not parse
NewFromStringKeepsCurrency(table, curr, value) ==
    IF ~GetCurrencyOk(table, curr) THEN BadCurrencyResult
    ELSE LET d == DecNewFromString(value)
         IN IF ~d.ok THEN ReturnsErr(<<Money(DecZero, GetCurrency(table, curr))>>)
            ELSE Returns(<<Money(d.dec, GetCurrency(table, curr))>>)

NewFromString(table, curr, value) ==
    IF ~GetCurrencyOk(table, curr) THEN BadCurrencyResult
    ELSE LET d == DecNewFromString(value)
         IN IF ~d.ok THEN ReturnsErr(<<Money(DecZero, getBadCurrency)>>)
            ELSE Returns(<<Money(d.dec, GetCurrency(table, curr))>>)

\* A float64 is NaN, an infinity, or finite; a finite one is given by its exact
\* decimal expansion dec, in lowest terms (dec.exp = 0, or dec.value % 10 # 0)
Float(class, dec) == [class |-> class, dec |-> dec]

IsFinite(f) == f.class = "finite"

NotFinite == "Cannot create a Decimal from a NaN or an infinity"

\* decimal.NewFromFloatWithExponent of a finite float: the float rounded half
\* away from zero at 10^exp; no more fractional digits than the float has
DecNewFromFloatWithExponent(f, exp) ==
    LET e == f.dec.exp
        eff == IF exp >= 0 THEN exp ELSE IF e = 0 THEN 0 ELSE IF exp < e THEN e ELSE exp
        scale == Pow10(eff - e)
        mag == (2 * AbsInt(f.dec.value) + scale) \div (2 * scale)
    IN IF f.dec.value = 0 THEN Dec(0, 0)
       ELSE Dec(SignInt(f.dec.value) * mag, eff)

\* NewFromFloatWithExponent looking the currency up before it tests the float
NewFromFloatLookupFirst(table, curr, f, exp) ==
    IF ~GetCurrencyOk(table, curr) THEN BadCurrencyResult
    ELSE IF ~IsFinite(f) THEN Panics(NotFinite)
    ELSE Returns(<<Money(DecNewFromFloatWithExponent(f, exp), GetCurrency(table, curr))>>)

NewFromFloatWithExponent(table, curr, f, exp) ==
    IF ~IsFinite(f) THEN Panics(NotFinite)
    ELSE IF ~GetCurrencyOk(table, curr) THEN BadCurrencyResult
    ELSE Returns(<<Money(DecNewFromFloatWithExponent(f, exp), GetCurrency(table, curr))>>)

NewFromFloat(table, curr, f) == NewFromFloatWithExponent(table, curr, f, MinInt32)

\* UpdateCurrency without the test that the currency is still unknown
UpdateCurrencyUnguarded(table, mo, newCurr) ==
    IF mo.currency = NilCurrency THEN Panics(NilDereference)
    ELSE IF ~GetCurrencyOk(table, newCurr) THEN ReturnsErr(<<mo>>)
    ELSE Returns(<<[mo EXCEPT !.currency = GetCurrency(table, newCurr)]>>)

\* UpdateCurrency, on *m: outs[1] is the Money after the call
UpdateCurrency(table, mo, newCurr) ==
    IF mo.currency = NilCurrency THEN Panics(NilDereference)
    ELSE IF mo.currency.Code # UnknownCurrencyCode THEN ReturnsErr(<<mo>>)
    ELSE IF ~GetCurrencyOk(table, newCurr) THEN ReturnsErr(<<mo>>)
    ELSE Returns(<<[mo EXCEPT !.currency = GetCurrency(table, newCurr)]>>)

(***************************************************************************)
(* Binary codec: code bytes, 4 bytes of exponent, the coefficient's gob.   *)
(***************************************************************************)
\* the 4 big-endian bytes of n, 0 <= n < 2^31
BytesOfNat31(n) ==
    <<n \div 16777216, (n \div 65536) % 256, (n \div 256) % 256, n % 256>>

\* the exponent written little-endian
PutUint32LittleEndian(e) ==
    LET c == IF e >= 0 THEN BytesOfNat31(e)
             ELSE [i \in 1..4 |-> 255 - BytesOfNat31(-(e + 1))[i]]
    IN <<c[4], c[3], c[2], c[1]>>

\* binary.BigEndian.PutUint32(b, uint32(e)): two's complement of a negative e
PutUint32(e) ==
    IF e >= 0 THEN BytesOfNat31(e)
    ELSE LET c == BytesOfNat31(-(e + 1)) IN [i \in 1..4 |-> 255 - c[i]]

\* int32(binary.BigEndian.Uint32(b))
Int32OfBytes(b) ==
    IF b[1] < 128 THEN ((b[1] * 256 + b[2]) * 256 + b[3]) * 256 + b[4]
    ELSE -(((((255 - b[1]) * 256 + (255 - b[2])) * 256 + (255 - b[3])) * 256) + (255 - b[4])) - 1

\* big.Int.Bytes: the magnitude, big-endian, without leading zero bytes
RECURSIVE NatBytes(_)
NatBytes(n) == IF n = 0 THEN <<>> ELSE Append(NatBytes(n \div 256), n % 256)

RECURSIVE BytesNat(_)
BytesNat(b) ==
    IF b = <<>> THEN 0 ELSE 256 * BytesNat(SubSeq(b, 1, Len(b) - 1)) + b[Len(b)]

intGobVersion == 1

\* big.Int.GobEncode: the version and sign byte, then the magnitude
IntGobEncode(x) ==
    <<2 * intGobVersion + (IF x < 0 THEN 1 ELSE 0)>> \o NatBytes(AbsInt(x))

\* big.Int.GobDecode fails on another version
IntGobDecodeOk(buf) == buf = <<>> \/ buf[1] \div 2 = intGobVersion

IntGobDecode(buf) ==
    IF buf = <<>> THEN 0
    ELSE (IF buf[1] % 2 = 1 THEN -1 ELSE 1) * BytesNat(Tail(buf))

MarshalBinary(mo) ==
    IF mo.currency = NilCurrency THEN Panics(NilDereference)
    ELSE LET b1 == mo.currency.Code
             b2 == PutUint32(Exponent(mo).int)
             b3 == IntGobEncode(Coefficient(mo).int)
         IN ReturnsBytes((b1 \o b2) \o b3)

\* the shortest input UnmarshalBinary accepts
MinBinaryLen == 8

\* UnmarshalBinary assigning *m whether or not the coefficient decoded
UnmarshalBinaryAlwaysAssigns(table, mo, bytes) ==
    IF Len(bytes) < MinBinaryLen THEN ReturnsErr(<<mo>>)
    ELSE LET curr == SubSeq(bytes, 1, 3)
             exp == Int32OfBytes(SubSeq(bytes, 4, 7))
             blob == SubSeq(bytes, 8, Len(bytes))
             mo2 == NewFromBigInt(table, curr, IntGobDecode(blob), exp).outs[1]
         IN IF ~IntGobDecodeOk(blob) THEN ReturnsErr(<<mo2>>) ELSE Returns(<<mo2>>)

\* UnmarshalBinary, on *m: outs[1] is the Money after the call
UnmarshalBinary(table, mo, bytes) ==
    IF Len(bytes) < MinBinaryLen THEN ReturnsErr(<<mo>>)
    ELSE LET curr == SubSeq(bytes, 1, 3)
             exp == Int32OfBytes(SubSeq(bytes, 4, 7))
             blob == SubSeq(bytes, 8, Len(bytes))
         IN IF ~IntGobDecodeOk(blob) THEN ReturnsErr(<<mo>>)
            ELSE Returns(<<NewFromBigInt(table, curr, IntGobDecode(blob), exp).outs[1]>>)

GobEncode(mo) == MarshalBinary(mo)

GobDecode(table, mo, bytes) == UnmarshalBinary(table, mo, bytes)

(***************************************************************************)
(* Sum and Avg.                                                            *)
(***************************************************************************)
RECURSIVE SumFrom(_, _)
SumFrom(total, rest) ==
    IF rest = <<>> THEN Returns(<<total>>)
    ELSE LET r == Add(total, rest[1])
         IN IF r.status = "panic" THEN r ELSE SumFrom(r.outs[1], Tail(rest))

Sum(first, rest) == SumFrom(first, rest)

Avg(table, first, rest) ==
    IF first.currency = NilCurrency THEN Panics(NilDereference)
    ELSE LET count == New(table, first.currency.Code, Len(rest) + 1, 0).outs[1]
             sum == Sum(first, rest)
         IN IF sum.status = "panic" THEN sum ELSE Div(sum.outs[1], count)

(***************************************************************************)
(* The program: one Money variable m, the registry, a byte buffer data,    *)
(* and ret, the record of the last call: the operation, its receiver and   *)
(* arguments as they were at the call, and what the call did (res).        *)
(***************************************************************************)
NoCode == <<>>

\* what a constructor is given besides the code: value and exp, a string, a float
Input(value, exp, str, float) == [value |-> value, exp |-> exp, str |-> str, float |-> float]

NoInput == Input(0, 0, <<>>, Float("finite", Dec(0, 0)))

Call(op, recv, args, n, code, res) ==
    [op |-> op, recv |-> recv, args |-> args, n |-> n, code |-> code, in |-> NoInput,
     bytes |-> <<>>, res |-> res]

\* a call of a constructor
Construct(op, code, in, res) ==
    [Call(op, ZeroValueMoney, <<>>, 0, code, res) EXCEPT !.in = in]

\* a call that decodes bytes into the receiver
Decode(op, recv, bytes, res) ==
    [Call(op, recv, <<>>, 0, NoCode, res) EXCEPT !.bytes = bytes]

Init ==
    /\ currencies = InitialCurrencies
    /\ m = ZeroValueMoney
    /\ data = <<>>
    /\ ret = Call("init", ZeroValueMoney, <<>>, 0, NoCode, Returns(<<>>))

\* codes the program passes to constructors and to UpdateCurrency
Codes == {USD, EUR, UnknownCurrencyCode, ZZZ}

Coefs == (-MaxCoef)..MaxCoef

Exps == (-MaxExp)..MaxExp

\* the Money values the program passes as arguments
Operands(table) ==
    {ZeroValueMoney, ZeroMoney} \cup {New(table, c, v, 0).outs[1] : c \in Codes, v \in Coefs}

\* a result is kept in m when it is within the bounds of the model
Keeps(mo) == AbsInt(mo.amount.value) <= MaxCoef /\ AbsInt(mo.amount.exp) <= MaxExp

\* m = result of a call that returns one Money (m is left alone on a panic)
Assign(res) ==
    IF res.status = "ok" /\ Keeps(res.outs[1]) THEN m' = res.outs[1] ELSE m' = m

\* m, err = New(curr, value, exp)
CallNew(curr, value, exp) ==
    LET res == New(currencies, curr, value, exp)
    IN /\ m' = res.outs[1]
       /\ ret' = Construct("New", curr, Input(value, exp, <<>>, NoInput.float), res)
       /\ UNCHANGED <<currencies, data>>

\* var fresh Money; m = fresh
CallZeroValue ==
    /\ m' = ZeroValueMoney
    /\ ret' = Call("var", ZeroValueMoney, <<>>, 0, NoCode, Returns(<<ZeroValueMoney>>))
    /\ UNCHANGED <<currencies, data>>

\* err = m.UpdateCurrency(newCurr)
CallUpdateCurrency(newCurr) ==
    LET res == UpdateCurrency(currencies, m, newCurr)
    IN /\ m' = IF res.status = "ok" THEN res.outs[1] ELSE m
       /\ ret' = Call("UpdateCurrency", m, <<>>, 0, newCurr, res)
       /\ UNCHANGED <<currencies, data>>

\* m = m.op(m2) for the operations of two Moneys
Binary(op, m2, n, res) ==
    /\ Assign(res)
    /\ ret' = Call(op, m, <<m2>>, n, NoCode, res)
    /\ UNCHANGED <<currencies, data>>

CallAdd(m2) == Binary("Add", m2, 0, Add(m, m2))

CallSub(m2) == Binary("Sub", m2, 0, Sub(m, m2))

CallMul(m2) == Binary("Mul", m2, 0, Mul(m, m2))

CallDivRound(m2, precision) == Binary("DivRound", m2, precision, DivRound(m, m2, precision))

CallDiv(m2) == Binary("Div", m2, 0, Div(m, m2))

CallMod(m2) == Binary("Mod", m2, 0, Mod(m, m2))

\* largest |exponent| the model raises to
MaxPow == 3

\* the decimal digits a coefficient of the model may take
MaxDigits == 9

\* the digits of the largest coefficient Pow(d, n) goes through: a negative
\* power multiplies quotients of DivisionPrecision digits
PowDigits(d, n) ==
    IF n >= 0 THEN 1
    ELSE (-n) * (DivisionPrecision + (IF d.exp < 0 THEN -d.exp ELSE 0) + 1)

CallPow(m2) ==
    /\ \/ ~SameCurrency(m, m2)
       \/ /\ AbsInt(DecIntPart(m2.amount)) <= MaxPow
          /\ PowDigits(m.amount, DecIntPart(m2.amount)) <= MaxDigits
    /\ Binary("Pow", m2, 0, Pow(m, m2))

\* q, r = m.QuoRem(m2, precision); m = q or m = r
CallQuoRem(m2, precision, keep) ==
    LET res == QuoRem(m, m2, precision)
    IN /\ IF res.status = "ok" /\ Keeps(res.outs[keep]) THEN m' = res.outs[keep] ELSE m' = m
       /\ ret' = Call("QuoRem", m, <<m2>>, precision, NoCode, res)
       /\ UNCHANGED <<currencies, data>>

\* c = m.Cmp(m2)
CallCmp(m2) ==
    /\ ret' = Call("Cmp", m, <<m2>>, 0, NoCode, Cmp(m, m2))
    /\ UNCHANGED <<currencies, m, data>>

\* m = m.op(...) for the operations of one Money
Unary(op, n, res) ==
    /\ Assign(res)
    /\ ret' = Call(op, m, <<>>, n, NoCode, res)
    /\ UNCHANGED <<currencies, data>>

CallAbs == Unary("Abs", 0, Abs(m))

CallNeg == Unary("Neg", 0, Neg(m))

CallShift(shift) == Unary("Shift", shift, Shift(m, shift))

CallRound(places) == Unary("Round", places, Round(m, places))

CallRoundBank(places) == Unary("RoundBank", places, RoundBank(m, places))

CallRoundCash(interval) == Unary("RoundCash", interval, RoundCash(m, interval))

CallFloor == Unary("Floor", 0, Floor(m))

CallCeil == Unary("Ceil", 0, Ceil(m))

CallTruncate(precision) == Unary("Truncate", precision, Truncate(m, precision))

\* an accessor: i = m.Sign(), m.Exponent(), m.Coefficient(), m.IntPart()
Accessor(op, res) ==
    /\ ret' = Call(op, m, <<>>, 0, NoCode, res)
    /\ UNCHANGED <<currencies, m, data>>

CallSign == Accessor("Sign", Sign(m))

CallExponent == Accessor("Exponent", Exponent(m))

CallCoefficient == Accessor("Coefficient", Coefficient(m))

CallIntPart == Accessor("IntPart", IntPart(m))

\* _, err = m.MarshalBinary()
CallMarshalBinary ==
    /\ ret' = Call("MarshalBinary", m, <<>>, 0, NoCode, MarshalBinary(m))
    /\ UNCHANGED <<currencies, m, data>>

\* m = Avg(m, rest...)
CallAvg(rest) ==
    LET res == Avg(currencies, m, rest)
    IN /\ Assign(res)
       /\ ret' = Call("Avg", m, rest, 0, NoCode, res)
       /\ UNCHANGED <<currencies, data>>

\* entries the program registers: USD with another grapheme, and a 4-byte code
NewUSD == Currency("FIAT", USD, 2, <<"U", "S", "$">>, <<"$", "1">>)

Tether == Currency("CRYPTO", USDT, 6, <<"T">>, <<"$", "1">>)

CallAddCurrency(c) ==
    /\ currencies' = AddCurrencyTo(currencies, c)
    /\ ret' = Call("AddCurrency", ZeroValueMoney, <<>>, 0, c.Code, Returns(<<>>))
    /\ UNCHANGED <<m, data>>

Precisions == {-1, 0, DivisionPrecision}

Shifts == {-1, 1}

Intervals == {0, 5, 7, 10, 15, 25, 50, 100}

RestLists(table) == {<<>>} \cup {<<x>> : x \in Operands(table)}

Next ==
    \/ \E c \in Codes, v \in Coefs, e \in Exps : CallNew(c, v, e)
    \/ CallZeroValue
    \/ \E c \in Codes : CallUpdateCurrency(c)
    \/ \E m2 \in Operands(currencies) : CallAdd(m2)
    \/ \E m2 \in Operands(currencies) : CallSub(m2)
    \/ \E m2 \in Operands(currencies) : CallMul(m2)
    \/ \E m2 \in Operands(currencies), p \in Precisions : CallDivRound(m2, p)
    \/ \E m2 \in Operands(currencies) : CallDiv(m2)
    \/ \E m2 \in Operands(currencies), p \in Precisions, k \in 1..2 : CallQuoRem(m2, p, k)
    \/ \E m2 \in Operands(currencies) : CallMod(m2)
    \/ \E m2 \in Operands(currencies) : CallPow(m2)
    \/ \E m2 \in Operands(currencies) : CallCmp(m2)
    \/ CallAbs
    \/ CallNeg
    \/ \E s \in Shifts : CallShift(s)
    \/ \E p \in Precisions : CallRound(p)
    \/ \E p \in Precisions : CallRoundBank(p)
    \/ \E i \in Intervals : CallRoundCash(i)
    \/ CallFloor
    \/ CallCeil
    \/ \E p \in Precisions : CallTruncate(p)
    \/ CallSign
    \/ CallExponent
    \/ CallCoefficient
    \/ CallIntPart
    \/ CallMarshalBinary
    \/ \E rest \in RestLists(currencies) : CallAvg(rest)
Spec == Init /\ [][Next]_vars

(***************************************************************************)
(* The constructors, on wider inputs.                                      *)
(***************************************************************************)
CallNewFromBigInt(curr, value, exp) ==
    LET res == NewFromBigInt(currencies, curr, value, exp)
    IN /\ m' = res.outs[1]
       /\ ret' = Construct("NewFromBigInt", curr, Input(value, exp, <<>>, NoInput.float), res)
       /\ UNCHANGED <<currencies, data>>

CallNewFromString(curr, value) ==
    LET res == NewFromString(currencies, curr, value)
    IN /\ m' = res.outs[1]
       /\ ret' = Construct("NewFromString", curr, Input(0, 0, value, NoInput.float), res)
       /\ UNCHANGED <<currencies, data>>

\* m, err = NewFromFloat(curr, f); a panic leaves m alone
CallNewFromFloat(curr, f) ==
    LET res == NewFromFloat(currencies, curr, f)
    IN /\ m' = IF res.status = "ok" THEN res.outs[1] ELSE m
       /\ ret' = Construct("NewFromFloat", curr, Input(0, MinInt32, <<>>, f), res)
       /\ UNCHANGED <<currencies, data>>

CallNewFromFloatWithExponent(curr, f, exp) ==
    LET res == NewFromFloatWithExponent(currencies, curr, f, exp)
    IN /\ m' = IF res.status = "ok" THEN res.outs[1] ELSE m
       /\ ret' = Construct("NewFromFloatWithExponent", curr, Input(0, exp, <<>>, f), res)
       /\ UNCHANGED <<currencies, data>>

\* the codes given to the constructors
NewCodes == {USD, UnknownCurrencyCode, ZZZ}

\* the strings given to NewFromString, each with what it stands for: ok is
\* whether it is a decimal, dec the decimal
StringCase(str, ok, dec) == [str |-> str, ok |-> ok, dec |-> dec]

StringCases ==
    {StringCase(<<"1">>, TRUE, Dec(1, 0)),
     StringCase(<<"-", "1", "2">>, TRUE, Dec(-12, 0)),
     StringCase(<<"+", "7">>, TRUE, Dec(7, 0)),
     StringCase(<<"1", ".", "5">>, TRUE, Dec(15, -1)),
     StringCase(<<"-", "0", ".", "0", "5">>, TRUE, Dec(-5, -2)),
     StringCase(<<".", "5">>, TRUE, Dec(5, -1)),
     StringCase(<<"2", ".", "5", "0">>, TRUE, Dec(25, -1)),
     StringCase(<<"3", ".">>, TRUE, Dec(3, 0)),
     StringCase(<<>>, FALSE, Dec(0, 0)),
     StringCase(<<"-">>, FALSE, Dec(0, 0)),
     StringCase(<<".">>, FALSE, Dec(0, 0)),
     StringCase(<<"a", "b", "c">>, FALSE, Dec(0, 0)),
     StringCase(<<"1", ".", "2", ".", "3">>, FALSE, Dec(0, 0)),
     StringCase(<<"1", "-", "2">>, FALSE, Dec(0, 0)),
     StringCase(<<"$", "1">>, FALSE, Dec(0, 0))}

Strings == {c.str : c \in StringCases}

\* the floats given to the constructors: finite ones with a finite binary
\* expansion, NaN and the infinities
FiniteFloats ==
    {Float("finite", Dec(0, 0)), Float("finite", Dec(1, 0)), Float("finite", Dec(-20, 0)),
     Float("finite", Dec(5, -1)), Float("finite", Dec(25, -1)), Float("finite", Dec(-25, -2)),
     Float("finite", Dec(-75, -2)), Float("finite", Dec(125, -3))}

NonFiniteFloats ==
    {Float("NaN", Dec(0, 0)), Float("+Inf", Dec(0, 0)), Float("-Inf", Dec(0, 0))}

Floats == FiniteFloats \cup NonFiniteFloats

FloatExps == {-2, -1, 0, 1}

\* the exponents given with a coefficient
NewExps == {MinInt32, 0, 258}

\* the coefficients and exponents of the wider specifications
WideCoefs == {-258, 0, 1}

WideExps == {MinInt32, -1, 0, 258, MaxInt32}

NextNew ==
    \/ \E c \in NewCodes, v \in WideCoefs, e \in NewExps : CallNew(c, v, e)
    \/ \E c \in NewCodes, v \in WideCoefs, e \in NewExps : CallNewFromBigInt(c, v, e)
    \/ \E c \in NewCodes, str \in Strings : CallNewFromString(c, str)
    \/ \E c \in NewCodes, f \in Floats : CallNewFromFloat(c, f)
    \/ \E c \in NewCodes, f \in Floats, e \in FloatExps : CallNewFromFloatWithExponent(c, f, e)
    \/ CallAddCurrency(NewUSD)

SpecNew == Init /\ [][NextNew]_vars

(***************************************************************************)
(* The binary codec.                                                       *)
(***************************************************************************)
\* data, err = m.MarshalBinary()
CallEncode(op) ==
    LET res == IF op = "GobEncode" THEN GobEncode(m) ELSE MarshalBinary(m)
    IN /\ ret' = Call(op, m, <<>>, 0, NoCode, res)
       /\ data' = IF res.status = "ok" THEN res.bytes ELSE data
       /\ UNCHANGED <<currencies, m>>

\* err = m.UnmarshalBinary(data)
CallDecode(op) ==
    LET res == IF op = "GobDecode" THEN GobDecode(currencies, m, data)
               ELSE UnmarshalBinary(currencies, m, data)
    IN /\ m' = res.outs[1]
       /\ ret' = Decode(op, m, data, res)
       /\ UNCHANGED <<currencies, data>>

\* bytes that come from elsewhere: a code, an exponent and a coefficient blob
\* (whole, of another gob version, or missing), and the beginnings of one
Received ==
    LET whole == {(c \o PutUint32(e)) \o b :
                     c \in {USD, ZZZ}, e \in {-1, 258},
                     b \in {IntGobEncode(-258), IntGobEncode(0), <<3>>, <<4, 1>>, <<0>>, <<>>}}
        one == (USD \o PutUint32(258)) \o IntGobEncode(-258)
    IN whole \cup {SubSeq(one, 1, k) : k \in 0..Len(one)}

Receive(bytes) ==
    /\ data' = bytes
    /\ ret' = Decode("receive", ZeroValueMoney, bytes, Returns(<<>>))
    /\ UNCHANGED <<currencies, m>>

\* the codes of the codec specification: USDT is registered by AddCurrency only
CodecCodes == {USD, ZZZ, USDT}

NextCodec ==
    \/ \E c \in CodecCodes, v \in WideCoefs, e \in WideExps : CallNew(c, v, e)
    \/ CallZeroValue
    \/ \E op \in {"MarshalBinary", "GobEncode"} : CallEncode(op)
    \/ \E op \in {"UnmarshalBinary", "GobDecode"} : CallDecode(op)
    \/ \E bytes \in Received : Receive(bytes)
    \/ CallAddCurrency(Tether)

SpecCodec == Init /\ [][NextCodec]_vars

(***************************************************************************)
(* Strings of decimals, and the text codec.                                *)
(***************************************************************************)
\* big.Int.String of a natural number: its decimal digits
RECURSIVE NatString(_)
NatString(n) ==
    IF n < 10 THEN <<Digits[n + 1]>> ELSE Append(NatString(n \div 10), Digits[(n % 10) + 1])

\* strings.Repeat("0", k)
Zeros(k) == [i \in 1..k |-> "0"]

\* decimal.Decimal.string(trimTrailingZeros): the integer part, then "." and
\* the fractional digits when there are any, behind "-" for a negative value
DecString(d, trimTrailingZeros) ==
    IF d.exp >= 0
    THEN LET v == d.value * Pow10(d.exp)
         IN IF v < 0 THEN <<"-">> \o NatString(-v) ELSE NatString(v)
    ELSE LET str == NatString(AbsInt(d.value))
             n == Len(str) + d.exp
             intPart == IF n > 0 THEN SubSeq(str, 1, n) ELSE <<"0">>
             allFraction == IF n > 0 THEN SubSeq(str, n + 1, Len(str)) ELSE Zeros(-n) \o str
             fractionalPart == IF trimTrailingZeros THEN TrimRightZeros(allFraction) ELSE allFraction
             number == IF fractionalPart # <<>> THEN (intPart \o <<".">>) \o fractionalPart ELSE intPart
         IN IF d.value < 0 THEN <<"-">> \o number ELSE number

\* a call that returns a string
ReturnsString(s) == ReturnsBytes(s)

String(mo) == ReturnsString(DecString(ensureInitialized(mo).amount, TRUE))

MarshalText(mo) == String(mo)

\* UnmarshalText looking the receiver's own currency code up
UnmarshalTextOwnCurrency(table, mo, text) ==
    LET dec == NewFromString(table,
                             IF mo.currency = NilCurrency THEN UnknownCurrencyCode ELSE mo.currency.Code,
                             text)
    IN IF dec.err THEN ReturnsErr(dec.outs) ELSE Returns(dec.outs)

\* UnmarshalText, on *d: outs[1] is the Money after the call, assigned whether
\* or not the string parsed
UnmarshalText(table, mo, text) ==
    LET dec == NewFromString(table, UnknownCurrencyCode, text)
    IN IF dec.err THEN ReturnsErr(dec.outs) ELSE Returns(dec.outs)

\* text, err = m.MarshalText()
CallMarshalText ==
    LET res == MarshalText(m)
    IN /\ ret' = Call("MarshalText", m, <<>>, 0, NoCode, res)
       /\ data' = res.bytes
       /\ UNCHANGED <<currencies, m>>

\* err = m.UnmarshalText(data)
CallUnmarshalText ==
    LET res == UnmarshalText(currencies, m, data)
    IN /\ m' = res.outs[1]
       /\ ret' = Decode("UnmarshalText", m, data, res)
       /\ UNCHANGED <<currencies, data>>

\* text that comes from elsewhere
ReceiveText(str) ==
    /\ data' = str
    /\ ret' = Decode("receive", ZeroValueMoney, str, Returns(<<>>))
    /\ UNCHANGED <<currencies, m>>

TextCodes == {USD, UnknownCurrencyCode, ZZZ}

TextCoefs == {-12345, -5, 0, 10, 1200}

TextExps == {-3, -1, 0, 2}

NextText ==
    \/ \E c \in TextCodes, v \in TextCoefs, e \in TextExps : CallNew(c, v, e)
    \/ CallZeroValue
    \/ CallMarshalText
    \/ CallUnmarshalText
    \/ \E str \in Strings : ReceiveText(str)

SpecText == Init /\ [][NextText]_vars

(***************************************************************************)
(* Formatter (formatter.go).                                               *)
(***************************************************************************)
NewFormatter(fraction, decpoint, thousand, grapheme, template) ==
    [Fraction |-> fraction, DecPoint |-> decpoint, Thousand |-> thousand,
     Grapheme |-> grapheme, Template |-> template]

\* (c *Currency) Formatter()
CurrencyFormatter(c) == NewFormatter(c.Fraction, c.DecPoint, c.Thousand, c.Grapheme, c.Template)

\* decimal.Decimal.StringFixed, StringFixedBank, StringFixedCash: the rounded
\* value with all its fractional digits
DecStringFixed(d, places) == DecString(DecRound(d, places), FALSE)

DecStringFixedBank(d, places) == DecString(DecRoundBank(d, places), FALSE)

DecStringFixedCash(d, interval) == DecString(DecRoundCash(d, interval), FALSE)

\* strings.Index(s, ch) + 1 for a character ch: 0 when s does not hold it
IndexOf(s, ch) ==
    IF \E i \in 1..Len(s) : s[i] = ch
    THEN CHOOSE i \in 1..Len(s) : s[i] = ch /\ \A j \in 1..(i - 1) : s[j] # ch
    ELSE 0

\* strings.Replace(s, old, new, 1) for a character old
ReplaceFirst(s, old, new) ==
    LET i == IndexOf(s, old)
    IN IF i = 0 THEN s ELSE (SubSeq(s, 1, i - 1) \o new) \o SubSeq(s, i + 1, Len(s))

\* strings.Split(s, ".") of a string with one "." at most
SplitPoint(s) ==
    LET i == IndexOf(s, ".")
    IN IF i = 0 THEN <<s>> ELSE <<SubSeq(s, 1, i - 1), SubSeq(s, i + 1, Len(s))>>

\* strings.TrimSpace, of spaces
RECURSIVE TrimSpace(_)
TrimSpace(s) ==
    IF s # <<>> /\ s[1] = " " THEN TrimSpace(Tail(s))
    ELSE IF s # <<>> /\ s[Len(s)] = " " THEN TrimSpace(SubSeq(s, 1, Len(s) - 1))
    ELSE s

\* for i := len(intPart) - 3; i > 0; i -= 3 { intPart = intPart[:i] + Thousand + intPart[i:] }
RECURSIVE InsertThousands(_, _, _)
InsertThousands(intPart, thousand, i) ==
    IF i <= 0 THEN intPart
    ELSE InsertThousands((SubSeq(intPart, 1, i) \o thousand) \o SubSeq(intPart, i + 1, Len(intPart)),
                         thousand, i - 3)

\* formatWithOptions with the sign taken from the amount as rendered: an
\* amount that rounds to zero carries no minus sign and no parentheses
formatWithRenderedSign(f, amount, noThousands, noCurrencyGrapheme, negsInBrackets) ==
    LET numBits == SplitPoint(DecStringFixedBank(DecAbs(amount), f.Fraction))
        fractionalPart == IF Len(numBits) > 1 THEN numBits[2] ELSE <<>>
        digits == numBits[1]
        grouped == IF ~noThousands /\ f.Thousand # <<>>
                   THEN InsertThousands(digits, f.Thousand, Len(digits) - 3)
                   ELSE digits
        number == IF Len(fractionalPart) > 0 THEN (grouped \o f.DecPoint) \o fractionalPart
                  ELSE grouped
        placed == ReplaceFirst(f.Template, "1", number)
        trimmed == IF noCurrencyGrapheme THEN TrimSpace(ReplaceFirst(placed, "$", <<>>))
                   ELSE ReplaceFirst(placed, "$", f.Grapheme)
    IN IF DecSign(DecRoundBank(amount, f.Fraction)) < 0
       THEN IF negsInBrackets THEN (<<"(">> \o trimmed) \o <<")">> ELSE <<"-">> \o trimmed
       ELSE trimmed

formatWithOptions(f, amount, noThousands, noCurrencyGrapheme, negsInBrackets) ==
    LET numBits == SplitPoint(DecStringFixedBank(DecAbs(amount), f.Fraction))
        fractionalPart == IF Len(numBits) > 1 THEN numBits[2] ELSE <<>>
        digits == numBits[1]
        grouped == IF ~noThousands /\ f.Thousand # <<>>
                   THEN InsertThousands(digits, f.Thousand, Len(digits) - 3)
                   ELSE digits
        number == IF Len(fractionalPart) > 0 THEN (grouped \o f.DecPoint) \o fractionalPart
                  ELSE grouped
        placed == ReplaceFirst(f.Template, "1", number)
        trimmed == IF noCurrencyGrapheme THEN TrimSpace(ReplaceFirst(placed, "$", <<>>))
                   ELSE ReplaceFirst(placed, "$", f.Grapheme)
    IN IF DecSign(amount) < 0
       THEN IF negsInBrackets THEN (<<"(">> \o trimmed) \o <<")">> ELSE <<"-">> \o trimmed
       ELSE trimmed

FormatAccounting(f, amount) == formatWithOptions(f, amount, TRUE, TRUE, TRUE)

FormatCurrency(f, amount) == formatWithOptions(f, amount, FALSE, FALSE, FALSE)

\* s = f.FormatCurrency(amount) or s = f.FormatAccounting(amount)
CallFormat(op, f, amount) ==
    LET s == IF op = "FormatAccounting" THEN FormatAccounting(f, amount)
             ELSE FormatCurrency(f, amount)
    IN /\ ret' = Call(op, ZeroValueMoney, <<f, amount>>, 0, NoCode, ReturnsString(s))
       /\ UNCHANGED <<currencies, m, data>>

\* the descriptors given to the Formatter: those of USD, JPY, BHD and CZK in
\* the registry, one with no thousand separator, and one whose decimal point
\* is "$" (as the Cape Verde escudo is written)
DollarFormatter == NewFormatter(2, <<".">>, <<",">>, <<"$">>, <<"$", "1">>)

Formatters ==
    {DollarFormatter,
     NewFormatter(0, <<".">>, <<",">>, <<"yen">>, <<"$", "1">>),
     NewFormatter(3, <<".">>, <<",">>, <<"B", "D">>, <<"1", " ", "$">>),
     NewFormatter(2, <<".">>, <<",">>, <<"K", "c">>, <<"1", " ", "$">>),
     NewFormatter(2, <<",">>, <<>>, <<"k", "r">>, <<"1", " ", "$">>),
     NewFormatter(2, <<"$">>, <<".">>, <<"E", "s", "c">>, <<"1", " ", "$">>)}

\* the amounts given to the Formatter; those of seven integer digits are given
\* to the descriptors of two fraction digits at most
FormatAmounts(f) ==
    {Dec(v, e) : v \in {-12345, -5, -1, 0, 5, 995, 12345, 12355, 99995}, e \in {-3, -2, 0}}
        \cup (IF f.Fraction <= 2 THEN {Dec(1234567, 0), Dec(-1234567, -1), Dec(1234567895, -3)}
              ELSE {})

NextFormat ==
    \/ \E f \in Formatters : \E amount \in FormatAmounts(f) : CallFormat("FormatCurrency", f, amount)
    \/ \E f \in Formatters : \E amount \in FormatAmounts(f) : CallFormat("FormatAccounting", f, amount)

SpecFormat == Init /\ [][NextFormat]_vars

(***************************************************************************)
(* Rounding, on amounts that have digits to discard.                       *)
(***************************************************************************)
\* s = m.StringFixedCash(interval)
StringFixedCash(mo, interval) ==
    LET a == ensureInitialized(mo)
    IN IF DecRoundCashPanics(interval) THEN Panics(BadInterval)
       ELSE ReturnsString(DecStringFixedCash(a.amount, interval))

\* s = m.FormattedStringFixedCash(interval): the argument m.RoundCash(interval)
\* panics before FormatCurrency is entered
FormattedStringFixedCash(mo, interval) ==
    LET a == ensureInitialized(mo)
        rounded == RoundCash(a, interval)
    IN IF rounded.status = "panic" THEN rounded
       ELSE ReturnsString(FormatCurrency(CurrencyFormatter(a.currency), rounded.outs[1].amount))

CallStringFixedCash(interval) ==
    /\ ret' = Call("StringFixedCash", m, <<>>, interval, NoCode, StringFixedCash(m, interval))
    /\ UNCHANGED <<currencies, m, data>>

CallFormattedStringFixedCash(interval) ==
    /\ ret' = Call("FormattedStringFixedCash", m, <<>>, interval, NoCode,
                   FormattedStringFixedCash(m, interval))
    /\ UNCHANGED <<currencies, m, data>>

RoundCodes == {USD, ZZZ}

\* coefficients with a final 5 after an even and after an odd digit, next to
\* coefficients on either side of the half
RoundCoefs ==
    {-555, -546, -545, -375, -35, -5, 0, 5, 15, 25, 35, 341, 343, 345, 350, 375,
     544, 545, 546, 555}

RoundExps == {-3, -2, -1, 0}

\* the amounts the program constructs, 123.456 among them
RoundAmounts == {Dec(v, e) : v \in RoundCoefs, e \in RoundExps} \cup {Dec(123456, -3)}

RoundPlaces == {-1, 0, 1, 2, 3}

\* interval is a uint8
RoundIntervals == {0, 1, 5, 7, 10, 15, 20, 25, 50, 100, 255}

NextRound ==
    \/ \E c \in RoundCodes, a \in RoundAmounts : CallNew(c, a.value, a.exp)
    \/ CallZeroValue
    \/ \E p \in RoundPlaces : CallRound(p)
    \/ \E p \in RoundPlaces : CallRoundBank(p)
    \/ \E i \in RoundIntervals : CallRoundCash(i)
    \/ \E i \in RoundIntervals : CallStringFixedCash(i)
    \/ \E i \in RoundIntervals : CallFormattedStringFixedCash(i)
    \/ \E p \in RoundPlaces : CallTruncate(p)

SpecRound == Init /\ [][NextRound]_vars

(***************************************************************************)
(* Division with remainder and comparison, on amounts written at several   *)
(* exponents.                                                              *)
(***************************************************************************)
ReturnsBool(b) == [Returns(<<>>) EXCEPT !.outs = <<b>>]

\* m.Equal(m2): m.Cmp(m2) == 0, with the panic of Cmp
Equal(mo, m2) ==
    LET c == Cmp(mo, m2) IN IF c.status = "panic" THEN c ELSE ReturnsBool(c.int = 0)

\* Equals, deprecated: m.Equal(m2)
Equals(mo, m2) == Equal(mo, m2)

GreaterThan(mo, m2) ==
    LET c == Cmp(mo, m2) IN IF c.status = "panic" THEN c ELSE ReturnsBool(c.int = 1)

GreaterThanOrEqual(mo, m2) ==
    LET c == Cmp(mo, m2)
    IN IF c.status = "panic" THEN c ELSE ReturnsBool(c.int = 1 \/ c.int = 0)

LessThan(mo, m2) ==
    LET c == Cmp(mo, m2) IN IF c.status = "panic" THEN c ELSE ReturnsBool(c.int = -1)

LessThanOrEqual(mo, m2) ==
    LET c == Cmp(mo, m2)
    IN IF c.status = "panic" THEN c ELSE ReturnsBool(c.int = -1 \/ c.int = 0)

\* b = m.op(m2) for the comparisons that return a bool
Comparison(op, m2, res) ==
    /\ ret' = Call(op, m, <<m2>>, 0, NoCode, res)
    /\ UNCHANGED <<currencies, m, data>>

CallEqual(m2) == Comparison("Equal", m2, Equal(m, m2))

CallEquals(m2) == Comparison("Equals", m2, Equals(m, m2))

CallGreaterThan(m2) == Comparison("GreaterThan", m2, GreaterThan(m, m2))

CallGreaterThanOrEqual(m2) == Comparison("GreaterThanOrEqual", m2, GreaterThanOrEqual(m, m2))

CallLessThan(m2) == Comparison("LessThan", m2, LessThan(m, m2))

CallLessThanOrEqual(m2) == Comparison("LessThanOrEqual", m2, LessThanOrEqual(m, m2))

\* coefficients together with their tenfold, and divisors that leave remainders
CompareCoefs == {-70, -7, 0, 3, 7, 25, 70}

CompareExps == {-1, 0, 1}

ComparePrecisions == {-1, 0, 1, 2}

\* the Money values the program passes as arguments: USD amounts, one EUR
\* amount and a zero-value Money
CompareOperands(table) ==
    {ZeroValueMoney, New(table, EUR, 3, 0).outs[1]}
        \cup {New(table, USD, v, e).outs[1] : v \in CompareCoefs, e \in CompareExps}

NextCompare ==
    \/ \E v \in CompareCoefs, e \in CompareExps : CallNew(USD, v, e)
    \/ CallZeroValue
    \/ \E m2 \in CompareOperands(currencies), p \in ComparePrecisions, k \in 1..2 :
           CallQuoRem(m2, p, k)
    \/ \E m2 \in CompareOperands(currencies) : CallMod(m2)
    \/ \E m2 \in CompareOperands(currencies) : CallCmp(m2)
    \/ \E m2 \in CompareOperands(currencies) : CallEqual(m2)
    \/ \E m2 \in CompareOperands(currencies) : CallEquals(m2)
    \/ \E m2 \in CompareOperands(currencies) : CallGreaterThan(m2)
    \/ \E m2 \in CompareOperands(currencies) : CallGreaterThanOrEqual(m2)
    \/ \E m2 \in CompareOperands(currencies) : CallLessThan(m2)
    \/ \E m2 \in CompareOperands(currencies) : CallLessThanOrEqual(m2)

SpecCompare == Init /\ [][NextCompare]_vars

(***************************************************************************)
(* Sum and Avg, on lists of up to three Moneys.                            *)
(***************************************************************************)
\* m = Sum(m, rest...)
CallSum(rest) ==
    LET res == Sum(m, rest)
    IN /\ Assign(res)
       /\ ret' = Call("Sum", m, rest, 0, NoCode, res)
       /\ UNCHANGED <<currencies, data>>

AvgCodes == {USD, EUR, UnknownCurrencyCode}

\* totals that the counts 2 and 3 divide exactly and totals they do not
AvgCoefs == {-2, 1, 5}

AvgExps == {-1, 0}

\* the Money values the program passes after the first: USD amounts, a EUR
\* amount, a "???" amount, ZeroMoney and a zero-value Money
AvgOperands(table) ==
    {ZeroValueMoney, ZeroMoney, New(table, EUR, 1, 0).outs[1],
     New(table, UnknownCurrencyCode, 5, -1).outs[1]}
        \cup {New(table, USD, v, e).outs[1] : v \in AvgCoefs, e \in AvgExps}

AvgLists(table) ==
    {<<>>} \cup {<<x>> : x \in AvgOperands(table)}
        \cup {<<x, y>> : x \in AvgOperands(table), y \in AvgOperands(table)}

NextAvg ==
    \/ \E c \in AvgCodes, v \in AvgCoefs, e \in AvgExps : CallNew(c, v, e)
    \/ CallZeroValue
    \/ \E rest \in AvgLists(currencies) : CallSum(rest)
    \/ \E rest \in AvgLists(currencies) : CallAvg(rest)

SpecAvg == Init /\ [][NextAvg]_vars

(***************************************************************************)
(* Scan and Value (database/sql).                                          *)
(***************************************************************************)
\* the interface{} value Scan is given: its dynamic type and, by the type,
\* a float, an integer or the characters of a string or []byte
ScanValue(type, float, int, text) == [type |-> type, float |-> float, int |-> int, text |-> text]

Quote == "\""

\* unquoteIfQuoted without the stripping
unquoteNever(value) ==
    IF value.type \notin {"string", "[]byte"} THEN [ok |-> FALSE, str |-> <<>>]
    ELSE [ok |-> TRUE, str |-> value.text]

\* unquoteIfQuoted: (string, error)
unquoteIfQuoted(value) ==
    IF value.type \notin {"string", "[]byte"} THEN [ok |-> FALSE, str |-> <<>>]
    ELSE LET bytes == value.text
         IN IF Len(bytes) > 2 /\ bytes[1] = Quote /\ bytes[Len(bytes)] = Quote
            THEN [ok |-> TRUE, str |-> SubSeq(bytes, 2, Len(bytes) - 1)]
            ELSE [ok |-> TRUE, str |-> bytes]

\* Scan, on *m: outs[1] is the Money after the call. The float and int64 cases
\* drop the constructor's error and return nil
Scan(table, mo, value) ==
    CASE value.type \in {"float32", "float64"} ->
             LET r == NewFromFloat(table, UnknownCurrencyCode, value.float)
             IN IF r.status = "panic" THEN r ELSE Returns(r.outs)
      [] value.type = "int64" -> Returns(New(table, UnknownCurrencyCode, value.int, 0).outs)
      [] OTHER ->
             LET u == unquoteIfQuoted(value)
             IN IF ~u.ok THEN ReturnsErr(<<mo>>)
                ELSE NewFromString(table, UnknownCurrencyCode, u.str)

\* Value: m.String(), nil
Value(mo) == String(mo)

\* err = m.Scan(value); a panic leaves m alone
CallScan(value) ==
    LET res == Scan(currencies, m, value)
    IN /\ m' = IF res.status = "ok" THEN res.outs[1] ELSE m
       /\ ret' = Call("Scan", m, <<value>>, 0, NoCode, res)
       /\ UNCHANGED <<currencies, data>>

\* v, err = m.Value()
CallValue ==
    /\ ret' = Call("Value", m, <<>>, 0, NoCode, Value(m))
    /\ UNCHANGED <<currencies, m, data>>

\* s between double quotes
Quoted(s) == (<<Quote>> \o s) \o <<Quote>>

\* the texts a database hands over: decimals and other texts, bare and quoted,
\* and texts with a single quote
ScanTexts ==
    Strings \cup {Quoted(s) : s \in Strings}
        \cup {<<Quote>>, <<Quote, "5">>, <<"5", Quote>>, Quoted(Quoted(<<"5">>))}

ScanInts == {-258, 0, 7}

ScanValues ==
    {ScanValue(t, f, 0, <<>>) : t \in {"float32", "float64"}, f \in Floats}
        \cup {ScanValue("int64", NoInput.float, v, <<>>) : v \in ScanInts}
        \cup {ScanValue(t, NoInput.float, 0, s) : t \in {"string", "[]byte"}, s \in ScanTexts}
        \cup {ScanValue(t, NoInput.float, 0, <<>>) : t \in {"nil", "int", "bool", "time.Time"}}

ScanCodes == {USD, UnknownCurrencyCode}

NextScan ==
    \/ \E c \in ScanCodes, v \in ScanInts : CallNew(c, v, -1)
    \/ CallZeroValue
    \/ \E value \in ScanValues : CallScan(value)
    \/ CallValue

SpecScan == Init /\ [][NextScan]_vars

(***************************************************************************)
(* The methods called for their result only: _ = m.op(...). Every method   *)
(* but UpdateCurrency, Scan, UnmarshalText, UnmarshalBinary and GobDecode  *)
(* has a value receiver (func (m Money) ...).                              *)
(***************************************************************************)
\* s = m.FormattedStringBank()
FormattedStringBank(mo) ==
    LET a == ensureInitialized(mo)
    IN ReturnsString(FormatCurrency(CurrencyFormatter(a.currency), a.amount))

\* s = m.FormattedStringAccounting()
FormattedStringAccounting(mo) ==
    LET a == ensureInitialized(mo)
    IN ReturnsString(FormatAccounting(CurrencyFormatter(a.currency), a.amount))

\* a receiver passed by pointer: ensureInitialized reaches the caller's Money
PointerReceiver(mo) == ensureInitialized(mo)

\* the caller's Money after a method with a value receiver: the method, its
\* m.ensureInitialized() included, worked on a copy
ValueReceiver(mo) == mo

\* the outcome of mo.op(m2), n a precision
ApplyBinary(op, mo, m2, n) ==
    CASE op = "Add" -> Add(mo, m2)
      [] op = "Sub" -> Sub(mo, m2)
      [] op = "Mul" -> Mul(mo, m2)
      [] op = "DivRound" -> DivRound(mo, m2, n)
      [] op = "Div" -> Div(mo, m2)
      [] op = "QuoRem" -> QuoRem(mo, m2, n)
      [] op = "Mod" -> Mod(mo, m2)
      [] op = "Cmp" -> Cmp(mo, m2)
      [] op = "Equal" -> Equal(mo, m2)
      [] op = "Equals" -> Equals(mo, m2)
      [] op = "GreaterThan" -> GreaterThan(mo, m2)
      [] op = "GreaterThanOrEqual" -> GreaterThanOrEqual(mo, m2)
      [] op = "LessThan" -> LessThan(mo, m2)
      [] op = "LessThanOrEqual" -> LessThanOrEqual(mo, m2)

\* the outcome of mo.op(n) or mo.op()
ApplyUnary(op, mo, n) ==
    CASE op = "Abs" -> Abs(mo)
      [] op = "Neg" -> Neg(mo)
      [] op = "Shift" -> Shift(mo, n)
      [] op = "Round" -> Round(mo, n)
      [] op = "RoundBank" -> RoundBank(mo, n)
      [] op = "RoundCash" -> RoundCash(mo, n)
      [] op = "Floor" -> Floor(mo)
      [] op = "Ceil" -> Ceil(mo)
      [] op = "Truncate" -> Truncate(mo, n)
      [] op = "Sign" -> Sign(mo)
      [] op = "Exponent" -> Exponent(mo)
      [] op = "Coefficient" -> Coefficient(mo)
      [] op = "IntPart" -> IntPart(mo)
      [] op = "String" -> String(mo)
      [] op = "StringFixedCash" -> StringFixedCash(mo, n)
      [] op = "FormattedStringBank" -> FormattedStringBank(mo)
      [] op = "FormattedStringAccounting" -> FormattedStringAccounting(mo)
      [] op = "FormattedStringFixedCash" -> FormattedStringFixedCash(mo, n)
      [] op = "Value" -> Value(mo)
      [] op = "MarshalText" -> MarshalText(mo)
      [] op = "MarshalBinary" -> MarshalBinary(mo)
      [] op = "GobEncode" -> GobEncode(mo)

\* _ = m.op(m2): receiver and argument are passed by value
CallOnCopies(op, m2, n) ==
    /\ m' = ValueReceiver(m)
    /\ ret' = Call(op, m, <<m2>>, n, NoCode, ApplyBinary(op, m, m2, n))
    /\ UNCHANGED <<currencies, data>>

\* _ = m.op(n) and _ = m.op()
CallOnCopy(op, n) ==
    /\ m' = ValueReceiver(m)
    /\ ret' = Call(op, m, <<>>, n, NoCode, ApplyUnary(op, m, n))
    /\ UNCHANGED <<currencies, data>>

\* err = m.UnmarshalBinary(bytes), err = m.GobDecode(bytes)
CallDecodeOf(op, bytes) ==
    LET res == IF op = "GobDecode" THEN GobDecode(currencies, m, bytes)
               ELSE UnmarshalBinary(currencies, m, bytes)
    IN /\ m' = res.outs[1]
       /\ ret' = Decode(op, m, bytes, res)
       /\ UNCHANGED <<currencies, data>>

\* err = m.UnmarshalText(text)
CallUnmarshalTextOf(text) ==
    LET res == UnmarshalText(currencies, m, text)
    IN /\ m' = res.outs[1]
       /\ ret' = Decode("UnmarshalText", m, text, res)
       /\ UNCHANGED <<currencies, data>>

\* the calls with a Money argument, each with its precision
FrameBinary ==
    {<<op, 0>> : op \in {"Add", "Sub", "Mul", "Div", "Mod", "Cmp", "Equal", "Equals",
                         "GreaterThan", "GreaterThanOrEqual", "LessThan", "LessThanOrEqual"}}
        \cup {<<"DivRound", 2>>, <<"QuoRem", -1>>, <<"QuoRem", 2>>}

\* the calls with a number (places, a precision, a shift or an interval) or
\* with no argument
FrameUnary ==
    {<<op, n>> : op \in {"Shift", "Round", "RoundBank", "Truncate"}, n \in {-1, 2}}
        \cup {<<op, n>> : op \in {"RoundCash", "StringFixedCash", "FormattedStringFixedCash"},
                          n \in {5, 7}}
        \cup {<<op, 0>> : op \in {"Abs", "Neg", "Floor", "Ceil", "Sign", "Exponent",
                                  "Coefficient", "IntPart", "String", "FormattedStringBank",
                                  "FormattedStringAccounting", "Value", "MarshalText",
                                  "MarshalBinary", "GobEncode"}}

FrameCodes == {USD, UnknownCurrencyCode, ZZZ}

FrameCoefs == {-15, 0, 1}

FrameExps == {-1, 0}

\* the arguments: m itself, a zero-value Money, a USD and a EUR amount
FrameOperands(table) ==
    {m, ZeroValueMoney, New(table, USD, 1, 0).outs[1], New(table, EUR, 1, 0).outs[1]}

FrameBytes ==
    LET one == (USD \o PutUint32(-1)) \o IntGobEncode(-258)
    IN {one, SubSeq(one, 1, 5), (ZZZ \o PutUint32(0)) \o IntGobEncode(0)}

FrameTexts == {<<"1", ".", "5">>, <<"a", "b", "c">>}

FrameScans ==
    {ScanValue("int64", NoInput.float, 7, <<>>), ScanValue("string", NoInput.float, 0, <<"-", "1", "2">>),
     ScanValue("string", NoInput.float, 0, <<"a", "b", "c">>), ScanValue("bool", NoInput.float, 0, <<>>),
     ScanValue("float64", Float("finite", Dec(25, -1)), 0, <<>>),
     ScanValue("float64", Float("NaN", Dec(0, 0)), 0, <<>>)}

NextFrame ==
    \/ \E c \in FrameCodes, v \in FrameCoefs, e \in FrameExps : CallNew(c, v, e)
    \/ CallZeroValue
    \/ \E call \in FrameBinary, m2 \in FrameOperands(currencies) : CallOnCopies(call[1], m2, call[2])
    \/ \E call \in FrameUnary : CallOnCopy(call[1], call[2])
    \/ \E c \in FrameCodes : CallUpdateCurrency(c)
    \/ \E value \in FrameScans : CallScan(value)
    \/ \E text \in FrameTexts : CallUnmarshalTextOf(text)
    \/ \E op \in {"UnmarshalBinary", "GobDecode"}, bytes \in FrameBytes : CallDecodeOf(op, bytes)

SpecFrame == Init /\ [][NextFrame]_vars

(***************************************************************************)
(* Properties.                                                             *)
(***************************************************************************)
\* the currency code a caller sees: a Money never initialized counts as "???"
CodeOf(mo) == IF mo.currency = NilCurrency THEN UnknownCurrencyCode ELSE mo.currency.Code

BinaryOps == {"Add", "Sub", "Mul", "DivRound", "Div", "QuoRem", "Mod", "Pow", "Cmp"}

UnaryOps ==
    {"Abs", "Neg", "Shift", "Round", "RoundBank", "RoundCash", "Floor", "Ceil", "Truncate"}

\* C1: a binary operation on two Moneys whose currency codes differ (a Money
\* never initialized counting as "???") panics on the mismatch, returns nothing
\* and leaves the receiver as it was.
C1_MismatchPanics ==
    (ret.op \in BinaryOps /\ CodeOf(ret.recv) # CodeOf(ret.args[1]))
        => /\ ret.res.status = "panic"
           /\ ret.res.why = CurrencyMismatch
           /\ ret.res.outs = <<>>
           /\ m = ret.recv

\* Add of USD 1 and EUR 1 was called and panicked
C1_Witness ==
    /\ ret.op = "Add"
    /\ ret.recv = Money(Dec(1, 0), InitialCurrencies[USD])
    /\ ret.args[1] = Money(Dec(1, 0), InitialCurrencies[EUR])
    /\ ret.res.status = "panic"

\* every Money a call returned carries the receiver's currency code
OutsCarryCode == \A i \in 1..Len(ret.res.outs) : CodeOf(ret.res.outs[i]) = CodeOf(ret.recv)

ClosedBinaryOps == {"Add", "Sub", "Mul", "DivRound", "QuoRem", "Mod"}

\* C2 as stated: on operands of one currency code Add, Sub, Mul, DivRound with
\* a non-zero divisor, QuoRem and Mod succeed and return Moneys of that code,
\* and so does every unary operation that returns.
C2_AsStated ==
    /\ (/\ ret.op \in ClosedBinaryOps
        /\ CodeOf(ret.recv) = CodeOf(ret.args[1])
        /\ (ret.op = "DivRound" => ret.args[1].amount.value # 0))
           => (ret.res.status = "ok" /\ ret.res.outs # <<>> /\ OutsCarryCode)
    /\ (ret.op \in UnaryOps /\ ret.res.status = "ok") => (ret.res.outs # <<>> /\ OutsCarryCode)

\* C2, amended: on operands of one currency code Add, Sub, Mul (exponents
\* summing within int32), and DivRound, QuoRem and Mod with a non-zero divisor
\* succeed and return Moneys of that code (the quotient and the remainder of
\* QuoRem both), and so does every unary operation that returns.
C2_Closure ==
    /\ (/\ ret.op \in ClosedBinaryOps
        /\ CodeOf(ret.recv) = CodeOf(ret.args[1])
        /\ (ret.op \in {"DivRound", "QuoRem", "Mod"} => ret.args[1].amount.value # 0)
        /\ (ret.op = "Mul" => InInt32(ret.recv.amount.exp + ret.args[1].amount.exp)))
           => (ret.res.status = "ok" /\ ret.res.outs # <<>> /\ OutsCarryCode)
    /\ (ret.op \in UnaryOps /\ ret.res.status = "ok") => (ret.res.outs # <<>> /\ OutsCarryCode)

\* QuoRem of a Money never initialized by a "???" Money of the registry
\* returned a quotient and a remainder
C2_Witness ==
    /\ ret.op = "QuoRem"
    /\ ret.recv.currency = NilCurrency
    /\ ret.args[1].currency = InitialCurrencies[UnknownCurrencyCode]
    /\ ret.res.status = "ok"
    /\ Len(ret.res.outs) = 2

\* the call c made again, on the receiver recv
Redo(c, recv) ==
    CASE c.op = "UpdateCurrency" -> UpdateCurrency(currencies, recv, c.code)
      [] c.op = "MarshalBinary" -> MarshalBinary(recv)
      [] c.op = "Avg" -> Avg(currencies, recv, c.args)
      [] c.op = "Add" -> Add(recv, c.args[1])
      [] c.op = "Sub" -> Sub(recv, c.args[1])
      [] c.op = "Mul" -> Mul(recv, c.args[1])
      [] c.op = "DivRound" -> DivRound(recv, c.args[1], c.n)
      [] c.op = "Div" -> Div(recv, c.args[1])
      [] c.op = "QuoRem" -> QuoRem(recv, c.args[1], c.n)
      [] c.op = "Mod" -> Mod(recv, c.args[1])
      [] c.op = "Pow" -> Pow(recv, c.args[1])
      [] c.op = "Cmp" -> Cmp(recv, c.args[1])
      [] c.op = "Abs" -> Abs(recv)
      [] c.op = "Neg" -> Neg(recv)
      [] c.op = "Shift" -> Shift(recv, c.n)
      [] c.op = "Round" -> Round(recv, c.n)
      [] c.op = "RoundBank" -> RoundBank(recv, c.n)
      [] c.op = "RoundCash" -> RoundCash(recv, c.n)
      [] c.op = "Floor" -> Floor(recv)
      [] c.op = "Ceil" -> Ceil(recv)
      [] c.op = "Truncate" -> Truncate(recv, c.n)
      [] c.op = "Sign" -> Sign(recv)
      [] c.op = "Exponent" -> Exponent(recv)
      [] c.op = "Coefficient" -> Coefficient(recv)
      [] c.op = "IntPart" -> IntPart(recv)
      [] OTHER -> c.res

MethodOps == BinaryOps \cup UnaryOps
    \cup {"UpdateCurrency", "MarshalBinary", "Avg", "Sign", "Exponent", "Coefficient", "IntPart"}

\* C3: an operation called on a Money never initialized does not fail for the
\* missing currency, and does what it does on the Money of the same amount
\* whose currency is the unknown currency "???".
C3_ZeroValueCoerced ==
    (ret.op \in MethodOps /\ ret.recv.currency = NilCurrency)
        => /\ ret.res.why # NilDereference
           /\ ret.res = Redo(ret, [ret.recv EXCEPT !.currency = getUnknownCurrency])

\* C4: UpdateCurrency on a Money with a currency changes the currency only
\* when the code was "???" and the new code is registered; a Money whose code
\* is not "???" keeps its currency through every UpdateCurrency.
C4_OneTimeFinalization ==
    (ret.op = "UpdateCurrency" /\ ret.recv.currency # NilCurrency)
        => /\ (m.currency # ret.recv.currency
                  => /\ ret.recv.currency.Code = UnknownCurrencyCode
                     /\ GetCurrencyOk(currencies, ret.code)
                     /\ m.currency = GetCurrency(currencies, ret.code))
           /\ (ret.recv.currency.Code # UnknownCurrencyCode => m = ret.recv)

\* UpdateCurrency("EUR") was called on a USD Money and was refused
C4_Witness ==
    /\ ret.op = "UpdateCurrency"
    /\ ret.recv.currency = InitialCurrencies[USD]
    /\ ret.code = EUR
    /\ ret.res.err
    /\ m = ret.recv

\* C5: UpdateCurrency on a resolved Money, or with a code that is not
\* registered, returns an error without a panic and leaves the Money as it
\* was; when it succeeds it returns no error and changes the currency alone.
C5_UpdateCurrencyReportsFailure ==
    ret.op = "UpdateCurrency"
        => /\ (CodeOf(ret.recv) # UnknownCurrencyCode \/ ~GetCurrencyOk(currencies, ret.code))
                  => (ret.res.status = "ok" /\ ret.res.err /\ m = ret.recv)
           /\ (ret.res.status = "ok" /\ ~ret.res.err) => m.amount = ret.recv.amount

CtorOps == {"New", "NewFromBigInt", "NewFromString", "NewFromFloat", "NewFromFloatWithExponent"}

FloatCtorOps == {"NewFromFloat", "NewFromFloatWithExponent"}

\* what the string of a call stands for
StringMeaning(str) == CHOOSE c \in StringCases : c.str = str

\* the constructor was given a code that is not registered, or a string that
\* is not a decimal
Rejected(c) ==
    \/ ~GetCurrencyOk(currencies, c.code)
    \/ (c.op = "NewFromString" /\ ~StringMeaning(c.in.str).ok)

\* d1 and d2 stand for the same number
SameValue(d1, d2) ==
    LET e == MinExp(d1.exp, d2.exp)
    IN d1.value * Pow10(d1.exp - e) = d2.value * Pow10(d2.exp - e)

\* r is the multiple of 10^exp nearest to f, the one away from zero of two
NearestAt(r, f, exp) ==
    LET e == MinExp(MinExp(r.exp, f.exp), exp)
        rr == r.value * Pow10(r.exp - e)
        ff == f.value * Pow10(f.exp - e)
        unit == Pow10(exp - e)
    IN /\ rr % unit = 0
       /\ 2 * AbsInt(rr - ff) <= unit
       /\ (2 * AbsInt(rr - ff) = unit => AbsInt(rr) > AbsInt(ff))

\* the Money of the call c holds exactly the value the constructor was given
ExactlyGiven(c, mo) ==
    CASE c.op \in {"New", "NewFromBigInt"} -> mo.amount = Dec(c.in.value, c.in.exp)
      [] c.op = "NewFromString" -> SameValue(mo.amount, StringMeaning(c.in.str).dec)
      [] OTHER -> SameValue(mo.amount, c.in.float.dec)

\* a constructor that is given a finite number
FiniteConstruction(c) == c.op \in CtorOps /\ (c.op \in FloatCtorOps => IsFinite(c.in.float))

\* the sentinel: no panic, an error, a zero amount with the bad-currency marker
ReturnsSentinel(c) ==
    /\ c.res.status = "ok"
    /\ c.res.err
    /\ c.res.outs[1].amount.value = 0
    /\ c.res.outs[1].currency = getBadCurrency

\* no panic, no error, and the registry's Currency for the code
ReturnsRegistered(c) ==
    /\ c.res.status = "ok"
    /\ ~c.res.err
    /\ c.res.outs[1].currency = currencies[c.code]

\* C6 as stated: a constructor given an unregistered code or a malformed string
\* returns an error and the sentinel; given a registered code and well-formed
\* input it returns no error and a Money of the registry's Currency holding
\* exactly the given value.
C6_AsStated ==
    FiniteConstruction(ret)
        => IF Rejected(ret) THEN ReturnsSentinel(ret)
           ELSE ReturnsRegistered(ret) /\ ExactlyGiven(ret, ret.res.outs[1])

\* C6, amended: the same, except that NewFromFloatWithExponent holds the given
\* float rounded to the nearest multiple of 10^exp, half away from zero.
C6_Construction ==
    FiniteConstruction(ret)
        => IF Rejected(ret) THEN ReturnsSentinel(ret) /\ m = ret.res.outs[1]
           ELSE /\ ReturnsRegistered(ret)
                /\ m = ret.res.outs[1]
                /\ IF ret.op = "NewFromFloatWithExponent"
                   THEN NearestAt(m.amount, ret.in.float.dec, ret.in.exp)
                   ELSE ExactlyGiven(ret, m)

\* NewFromFloatWithExponent("USD", 2.5, 0) returned USD 3
C6_Witness ==
    /\ ret.op = "NewFromFloatWithExponent"
    /\ ret.code = USD
    /\ ret.in.float = Float("finite", Dec(25, -1))
    /\ ret.in.exp = 0
    /\ ~ret.res.err
    /\ m = Money(Dec(3, 0), currencies[USD])

\* C7: NewFromFloat and NewFromFloatWithExponent of NaN or an infinity panic
\* and return no Money, whether or not the code is registered.
C7_NonFinitePanics ==
    (ret.op \in FloatCtorOps /\ ~IsFinite(ret.in.float))
        => (ret.res.status = "panic" /\ ret.res.why = NotFinite /\ ret.res.outs = <<>>)

\* NewFromFloat of NaN with an unregistered code panicked
C7_Witness ==
    /\ ret.op = "NewFromFloat"
    /\ ret.in.float.class = "NaN"
    /\ ret.code = ZZZ
    /\ ret.res.status = "panic"

DecodeOps == {"UnmarshalBinary", "GobDecode"}

\* the registered codes of 3 bytes
ThreeByteCodes == {c \in DOMAIN currencies : Len(c) = 3}

\* C8: decoding the bytes MarshalBinary gives for a Money built from a
\* registered 3-byte code, a coefficient and a 32-bit exponent returns no
\* error and a Money of the same coefficient, exponent and currency code.
C8_BinaryRoundTrip ==
    ret.op \in DecodeOps
        => \A c \in ThreeByteCodes, v \in WideCoefs, e \in WideExps :
              ret.bytes = MarshalBinary(New(currencies, c, v, e).outs[1]).bytes
                  => /\ ret.res.status = "ok"
                     /\ ~ret.res.err
                     /\ m.amount = Dec(v, e)
                     /\ m.currency.Code = c

\* the bytes of USD -258 * 10^MinInt32 were decoded into another Money
C8_Witness ==
    /\ ret.op = "UnmarshalBinary"
    /\ ret.bytes = MarshalBinary(Money(Dec(-258, MinInt32), currencies[USD])).bytes
    /\ ret.recv.amount # Dec(-258, MinInt32)
    /\ m = Money(Dec(-258, MinInt32), currencies[USD])

\* the parts of the bytes of a call
BytesCode(c) == SubSeq(c.bytes, 1, 3)

BytesExp(c) == Int32OfBytes(SubSeq(c.bytes, 4, 7))

BytesBlob(c) == SubSeq(c.bytes, 8, Len(c.bytes))

\* C9: decoding well-formed bytes whose code is not registered returns no
\* error and makes the receiver the Money of that code whose amount is the
\* encoded coefficient and exponent.
C9_UnknownCodeDecodes ==
    (/\ ret.op \in DecodeOps
     /\ Len(ret.bytes) >= MinBinaryLen
     /\ IntGobDecodeOk(BytesBlob(ret))
     /\ ~GetCurrencyOk(currencies, BytesCode(ret)))
        => /\ ret.res.status = "ok"
           /\ ~ret.res.err
           /\ m.currency.Code = BytesCode(ret)
           /\ m.amount = Dec(IntGobDecode(BytesBlob(ret)), BytesExp(ret))

\* C10: UnmarshalBinary and GobDecode of fewer than 8 bytes return an error,
\* and whenever they return an error the receiver is as it was.
C10_DecodeErrorLeavesReceiver ==
    ret.op \in DecodeOps
        => /\ ret.res.status = "ok"
           /\ (Len(ret.bytes) < MinBinaryLen => ret.res.err)
           /\ (ret.res.err => m = ret.recv)

\* 8 bytes or more with a coefficient of another gob version were refused and
\* the USD receiver kept its amount
C10_Witness ==
    /\ ret.op = "UnmarshalBinary"
    /\ Len(ret.bytes) >= MinBinaryLen
    /\ ret.res.err
    /\ ret.recv = Money(Dec(-258, 258), currencies[USD])
    /\ m = ret.recv

\* the Moneys of the text specification: every amount, with no currency or
\* with any currency of the registry
TextMoneys ==
    {Money(Dec(v, e), c) : v \in TextCoefs, e \in TextExps,
                           c \in {NilCurrency} \cup {currencies[k] : k \in DOMAIN currencies}}

\* the characters of a plain decimal: digits, a sign, a point
PlainCharacters == {Digits[i] : i \in 1..10} \cup {"-", "."}

\* C11: UnmarshalText of the text MarshalText gives for a Money returns no
\* error and leaves a Money of the same numeric value and the same String,
\* whose currency code is "???" whatever the currency was; the text is made of
\* digits, a sign and a point only.
C11_TextRoundTrip ==
    /\ ret.op = "MarshalText"
          => /\ ret.res.status = "ok" /\ ~ret.res.err
             /\ \A i \in 1..Len(ret.res.bytes) : ret.res.bytes[i] \in PlainCharacters
    /\ ret.op = "UnmarshalText"
          => \A x \in TextMoneys :
                ret.bytes = MarshalText(x).bytes
                    => /\ ret.res.status = "ok" /\ ~ret.res.err
                       /\ SameValue(m.amount, x.amount)
                       /\ String(m).bytes = String(x).bytes
                       /\ m.currency.Code = UnknownCurrencyCode

\* the text "-12.345" of USD -12345 * 10^-3 was read into a USD Money, which
\* became "???" -12.345
C11_Witness ==
    /\ ret.op = "UnmarshalText"
    /\ ret.bytes = <<"-", "1", "2", ".", "3", "4", "5">>
    /\ ret.bytes = MarshalText(Money(Dec(-12345, -3), currencies[USD])).bytes
    /\ ret.recv.currency = currencies[USD]
    /\ m = Money(Dec(-12345, -3), currencies[UnknownCurrencyCode])

FormatOps == {"FormatCurrency", "FormatAccounting"}

\* C12 as stated: under the descriptor (2, "$", "$1", ".", ",") FormatCurrency
\* of -12345 * 10^-3 is "-$12.35" and FormatAccounting is "(12.35)".
C12_AsStated ==
    (ret.op \in FormatOps /\ ret.args = <<DollarFormatter, Dec(-12345, -3)>>)
        => ret.res.bytes = (IF ret.op = "FormatCurrency"
                            THEN <<"-", "$", "1", "2", ".", "3", "5">>
                            ELSE <<"(", "1", "2", ".", "3", "5", ")">>)

\* C12, amended: under the descriptor (2, "$", "$1", ".", ",") FormatCurrency
\* of -12345 * 10^-3 is "-$12.34" and FormatAccounting is "(12.34)": 12.345 is
\* half way, and of 12.34 and 12.35 the first ends in an even digit.
C12_BankRoundedExample ==
    (ret.op \in FormatOps /\ ret.args = <<DollarFormatter, Dec(-12345, -3)>>)
        => ret.res.bytes = (IF ret.op = "FormatCurrency"
                            THEN <<"-", "$", "1", "2", ".", "3", "4">>
                            ELSE <<"(", "1", "2", ".", "3", "4", ")">>)

\* FormatAccounting of -12.345 under the dollar descriptor returned "(12.34)"
C12_Witness ==
    /\ ret.op = "FormatAccounting"
    /\ ret.args = <<DollarFormatter, Dec(-12345, -3)>>
    /\ ret.res.bytes = <<"(", "1", "2", ".", "3", "4", ")">>

\* num / den rounded to the nearest integer, a half to the even one
HalfEven(num, den) ==
    LET q == num \div den
        r == num % den
    IN IF 2 * r < den THEN q ELSE IF 2 * r > den THEN q + 1 ELSE q + (q % 2)

\* |amount| in units of 10^-fraction, rounded half to even
RoundedUnits(amount, fraction) ==
    LET v == AbsInt(amount.value)
        s == amount.exp + fraction
    IN IF s >= 0 THEN v * Pow10(s) ELSE HalfEven(v, Pow10(-s))

\* the last k digits of n
RECURSIVE FixedDigits(_, _)
FixedDigits(n, k) ==
    IF k = 0 THEN <<>> ELSE Append(FixedDigits(n \div 10, k - 1), Digits[(n % 10) + 1])

\* digits with sep between the groups of three counted from the right
RECURSIVE Grouped(_, _)
Grouped(digits, sep) ==
    IF Len(digits) <= 3 THEN digits
    ELSE (Grouped(SubSeq(digits, 1, Len(digits) - 3), sep) \o sep)
             \o SubSeq(digits, Len(digits) - 2, Len(digits))

\* the rounded absolute value: grouped integer digits, then the decimal point
\* and the fraction digits when Fraction > 0
Body(f, amount, sep) ==
    LET units == RoundedUnits(amount, f.Fraction)
        unit == Pow10(f.Fraction)
    IN Grouped(NatString(units \div unit), sep)
           \o (IF f.Fraction > 0 THEN f.DecPoint \o FixedDigits(units % unit, f.Fraction) ELSE <<>>)

\* the template with body for its "1" and symbol for its "$"
RECURSIVE Fill(_, _, _)
Fill(template, body, symbol) ==
    IF template = <<>> THEN <<>>
    ELSE (IF template[1] = "1" THEN body
          ELSE IF template[1] = "$" THEN symbol
          ELSE <<template[1]>>) \o Fill(Tail(template), body, symbol)

\* the sign of each style around the rendering s
Signed(op, amount, s) ==
    IF amount.value >= 0 THEN s
    ELSE IF op = "FormatAccounting" THEN (<<"(">> \o s) \o <<")">>
    ELSE <<"-">> \o s

\* the layout the two styles are to give
Layout(op, f, amount) ==
    Signed(op, amount,
           IF op = "FormatCurrency" THEN Fill(f.Template, Body(f, amount, f.Thousand), f.Grapheme)
           ELSE TrimSpace(Fill(f.Template, Body(f, amount, <<>>), <<>>)))

\* C13: FormatCurrency renders the absolute value rounded half to even to
\* Fraction digits, the thousand separator between the groups of three integer
\* digits, the decimal point and the fraction digits when Fraction > 0, the
\* body in place of the template's "1" and the grapheme in place of its "$";
\* FormatAccounting renders the same body without separators, the "$" removed
\* and the spaces around trimmed.
C13_FormatterLayout ==
    ret.op \in FormatOps => ret.res.bytes = Layout(ret.op, ret.args[1], ret.args[2])

\* the digits x loses at 10^-places are exactly half a unit of 10^-places
IsTie(x, places) ==
    LET s == x.exp + places
    IN s < 0 /\ 2 * (AbsInt(x.value) % Pow10(-s)) = Pow10(-s)

\* the amount a call was made on, and the amount of the Money it returned
RecvAmount == ensureInitialized(ret.recv).amount

ResAmount == ret.res.outs[1].amount

\* C14: RoundBank(places) returns the multiple of 10^-places nearest to the
\* amount, and on an exact half the neighbour with an even last digit, for
\* either sign and for negative places (5.45 -> 5.4, 5.55 -> 5.6 at 1,
\* 545 -> 540, 555 -> 560 at -1); off the half it returns what Round returns
C14_RoundBankHalfEven ==
    ret.op = "RoundBank" =>
        /\ ret.res.status = "ok"
        /\ SameValue(ResAmount,
                     Dec(SignInt(RecvAmount.value) * RoundedUnits(RecvAmount, ret.n), -ret.n))
        /\ (~IsTie(RecvAmount, ret.n) =>
                SameValue(ResAmount, Round(ret.recv, ret.n).outs[1].amount))
        /\ (RecvAmount = Dec(545, -2) /\ ret.n = 1 => SameValue(ResAmount, Dec(54, -1)))
        /\ (RecvAmount = Dec(555, -2) /\ ret.n = 1 => SameValue(ResAmount, Dec(56, -1)))
        /\ (RecvAmount = Dec(545, 0) /\ ret.n = -1 => SameValue(ResAmount, Dec(540, 0)))
        /\ (RecvAmount = Dec(555, 0) /\ ret.n = -1 => SameValue(ResAmount, Dec(560, 0)))

C14_Witness ==
    /\ ret.op = "RoundBank"
    /\ ret.recv.amount = Dec(-545, -2)
    /\ ret.n = 1
    /\ IsTie(RecvAmount, ret.n)
    /\ ret.res.status = "ok"
    /\ SameValue(ResAmount, Dec(-54, -1))

\* C15: Round(places) returns the multiple of 10^-places nearest to the amount,
\* a half going away from zero, so that the opposite amount rounds to the
\* opposite result (5.45 -> 5.5 and -5.45 -> -5.5 at 1, 545 -> 550 at -1)
C15_RoundHalfAwaySymmetric ==
    ret.op = "Round" =>
        /\ ret.res.status = "ok"
        /\ NearestAt(ResAmount, RecvAmount, -ret.n)
        /\ LET opposite == Round(Neg(ret.recv).outs[1], ret.n)
           IN /\ opposite.status = "ok"
              /\ SameValue(opposite.outs[1].amount, DecNeg(ResAmount))
        /\ (RecvAmount = Dec(545, -2) /\ ret.n = 1 => SameValue(ResAmount, Dec(55, -1)))
        /\ (RecvAmount = Dec(-545, -2) /\ ret.n = 1 => SameValue(ResAmount, Dec(-55, -1)))
        /\ (RecvAmount = Dec(545, 0) /\ ret.n = -1 => SameValue(ResAmount, Dec(550, 0)))

C15_Witness ==
    /\ ret.op = "Round"
    /\ ret.recv.amount = Dec(-545, 0)
    /\ ret.n = -1
    /\ ret.res.status = "ok"
    /\ SameValue(ResAmount, Dec(-550, 0))

CashOps == {"RoundCash", "StringFixedCash", "FormattedStringFixedCash"}

\* C16: RoundCash, StringFixedCash and FormattedStringFixedCash panic, returning
\* nothing, for every interval outside {5, 10, 15, 25, 50, 100} whatever the
\* amount; for an interval of the set they return, and the Money RoundCash
\* returns has the currency of the receiver
C16_CashIntervalPanics ==
    ret.op \in CashOps =>
        IF ret.n \in {5, 10, 15, 25, 50, 100}
        THEN /\ ret.res.status = "ok"
             /\ (ret.op = "RoundCash" =>
                    /\ Len(ret.res.outs) = 1
                    /\ CodeOf(ret.res.outs[1]) = CodeOf(ret.recv)
                    /\ ret.res.outs[1].currency = ensureInitialized(ret.recv).currency)
             /\ (ret.op # "RoundCash" => ret.res.bytes # <<>>)
        ELSE /\ ret.res.status = "panic"
             /\ ret.res.outs = <<>>
             /\ ret.res.bytes = <<>>
             /\ m = ret.recv

C16_Witness ==
    /\ ret.op = "FormattedStringFixedCash"
    /\ ret.n = 20
    /\ ret.recv.amount = Dec(343, -2)
    /\ ret.res.status = "panic"

\* r is a multiple of units hundredths
MultipleOfHundredths(r, units) ==
    LET e == MinExp(r.exp, -2)
    IN (r.value * Pow10(r.exp - e)) % (units * Pow10((-2) - e)) = 0

\* r is a multiple of interval hundredths and no other multiple is nearer to x
NearestCash(r, x, interval) ==
    LET e == MinExp(MinExp(r.exp, x.exp), -2)
        rr == r.value * Pow10(r.exp - e)
        xx == x.value * Pow10(x.exp - e)
        unit == interval * Pow10((-2) - e)
    IN /\ rr % unit = 0
       /\ 2 * AbsInt(rr - xx) <= unit

\* of two nearest multiples r is the one away from zero
AwayOnTie(r, x, interval) ==
    LET e == MinExp(MinExp(r.exp, x.exp), -2)
        rr == r.value * Pow10(r.exp - e)
        xx == x.value * Pow10(x.exp - e)
    IN 2 * AbsInt(rr - xx) = interval * Pow10((-2) - e) => AbsInt(rr) > AbsInt(xx)

C20_TruncateIdempotent ==
    ret.op = "Truncate" /\ ret.n >= 0 =>
        /\ ret.res.status = "ok"
        /\ Truncate(ret.res.outs[1], ret.n) = ret.res
        /\ DecCmp(DecAbs(ResAmount), DecAbs(RecvAmount)) <= 0
        /\ DecCmp(DecAbs(DecSub(RecvAmount, ResAmount)), Dec(1, -ret.n)) < 0
        /\ (RecvAmount = Dec(123456, -3) /\ ret.n = 2 => ResAmount = Dec(12345, -2))

C20_Witness ==
    /\ ret.op = "Truncate"
    /\ ret.recv.amount = Dec(123456, -3)
    /\ ret.n = 2
    /\ ret.res.status = "ok"
    /\ ResAmount = Dec(12345, -2)

\* the amount of the Money a call was given as its argument
ArgAmount == ensureInitialized(ret.args[1]).amount

\* d = d2*q + r, exactly
Recomposes(d, d2, q, r) ==
    LET e == MinExp(MinExp(d.exp, d2.exp + q.exp), r.exp)
    IN d.value * Pow10(d.exp - e)
           = d2.value * q.value * Pow10((d2.exp + q.exp) - e) + r.value * Pow10(r.exp - e)

\* q is an integer multiple of 10^-p
MultipleOfPrecision(q, p) == q.exp >= -p \/ q.value % Pow10((-p) - q.exp) = 0

\* |r| < |d2| * 10^-p
RemainderBelow(r, d2, p) ==
    LET e == MinExp(r.exp, d2.exp - p)
    IN AbsInt(r.value) * Pow10(r.exp - e) < AbsInt(d2.value) * Pow10((d2.exp - p) - e)

ValueOrder(a, b) ==
    LET e == MinExp(a.exp, b.exp)
    IN SignInt(a.value * Pow10(a.exp - e) - b.value * Pow10(b.exp - e))

\* b writes the value of a with the coefficient times ten, one exponent lower
Rescaled(a, b) == b = Dec(10 * a.value, a.exp - 1)

CompareOps == {"Cmp", "Equal", "LessThan", "GreaterThan"}

\* C19: comparison looks at the value, not at how it is written: a Money with
\* (c, e) against the Money with (10*c, e-1) of the same currency gives Cmp 0,
\* Equal true, LessThan and GreaterThan false; Cmp is the order of the two
\* values, and Cmp(a, b) = -Cmp(b, a)
C19_CmpRescaleInvariant ==
    ret.op \in CompareOps /\ SameCurrency(ret.recv, ret.args[1]) =>
        /\ ret.res.status = "ok"
        /\ (ret.op = "Cmp" =>
               /\ ret.res.int = ValueOrder(RecvAmount, ArgAmount)
               /\ Cmp(ret.args[1], ret.recv).int = -ret.res.int
               /\ (Rescaled(RecvAmount, ArgAmount) => ret.res.int = 0))
        /\ (ret.op = "Equal" =>
               /\ ret.res.outs[1] = (ValueOrder(RecvAmount, ArgAmount) = 0)
               /\ (Rescaled(RecvAmount, ArgAmount) => ret.res.outs[1] = TRUE))
        /\ (ret.op = "LessThan" =>
               /\ ret.res.outs[1] = (ValueOrder(RecvAmount, ArgAmount) = -1)
               /\ (Rescaled(RecvAmount, ArgAmount) => ret.res.outs[1] = FALSE))
        /\ (ret.op = "GreaterThan" =>
               /\ ret.res.outs[1] = (ValueOrder(RecvAmount, ArgAmount) = 1)
               /\ (Rescaled(RecvAmount, ArgAmount) => ret.res.outs[1] = FALSE))

C19_Witness ==
    /\ ret.op = "Equal"
    /\ ret.recv.amount = Dec(-7, 1)
    /\ ArgAmount = Dec(-70, 0)
    /\ Rescaled(RecvAmount, ArgAmount)
    /\ ret.res.status = "ok"
    /\ ret.res.outs = <<TRUE>>

\* the Moneys of a call of Sum or Avg: the first and the rest
Elements == <<ret.recv>> \o ret.args

\* every element has the code of the first
ShareOneCode == \A i \in 1..Len(Elements) : CodeOf(Elements[i]) = CodeOf(Elements[1])

\* the total of the amounts of the first k elements, as one coefficient at exp
RECURSIVE TotalAt(_, _)
TotalAt(k, exp) ==
    IF k = 0 THEN 0
    ELSE TotalAt(k - 1, exp) + Elements[k].amount.value * Pow10(Elements[k].amount.exp - exp)

\* the least exponent among the elements and 0
RECURSIVE LeastExp(_)
LeastExp(k) == IF k = 0 THEN 0 ELSE MinExp(LeastExp(k - 1), Elements[k].amount.exp)

\* r is total / n rounded to a multiple of 10^-precision, a half away from zero
IsQuotientAt(r, total, n, precision) ==
    LET e == MinExp(MinExp(r.exp, total.exp), -precision)
        rr == r.value * Pow10(r.exp - e)
        tt == total.value * Pow10(total.exp - e)
        unit == Pow10((-precision) - e)
    IN /\ rr % unit = 0
       /\ 2 * AbsInt(rr * n - tt) <= n * unit
       /\ (2 * AbsInt(rr * n - tt) = n * unit => AbsInt(rr * n) > AbsInt(tt))

\* C21: for a non-empty list of Moneys of one currency code Avg returns a
\* Money of that currency whose amount is the total divided by the count,
\* rounded at DivisionPrecision; Sum returns the exact total in that currency
\* and panics when an element of another currency is added
C21_AvgOfSameCurrency ==
    LET e == LeastExp(Len(Elements))
        total == Dec(TotalAt(Len(Elements), e), e)
    IN /\ ret.op = "Avg" /\ ShareOneCode =>
              /\ ret.res.status = "ok"
              /\ CodeOf(ret.res.outs[1]) = CodeOf(ret.recv)
              /\ IsQuotientAt(ResAmount, total, Len(Elements), DivisionPrecision)
       /\ ret.op = "Sum" /\ ShareOneCode =>
              /\ ret.res.status = "ok"
              /\ CodeOf(ret.res.outs[1]) = CodeOf(ret.recv)
              /\ SameValue(ResAmount, total)
       /\ ret.op = "Sum" /\ ~ShareOneCode => ret.res.status = "panic"

\* the value a call of Scan was given
Scanned == ret.args[1]

\* text without one enclosing pair of double quotes
Stripped(t) ==
    IF Len(t) >= 2 /\ t[1] = Quote /\ t[Len(t)] = Quote THEN SubSeq(t, 2, Len(t) - 1) ELSE t

\* s is the text of a decimal
IsDecimalText(s) == s \in Strings /\ StringMeaning(s).ok

\* the call returned a nil error and left a Money of code "???" in the receiver
ScannedOk ==
    /\ ret.res.status = "ok"
    /\ ~ret.res.err
    /\ m = ret.res.outs[1]
    /\ m.currency # NilCurrency
    /\ m.currency.Code = UnknownCurrencyCode

InPlaceOps == {"UpdateCurrency", "Scan", "UnmarshalText", "UnmarshalBinary", "GobDecode"}

\* the statements that give m a newly constructed Money
Constructions == {"New", "var"}

\* the operations with a value receiver
ValueOps == {call[1] : call \in FrameBinary \cup FrameUnary}

\* C22: no arithmetic, comparison, rounding, conversion, formatting or marshal
\* operation changes the amount or the currency of its receiver or of its
\* argument, a zero-value one included: after the call m, the receiver, and
\* with it the argument that was m, is what it was at the call; after
\* construction a Money changes only through UpdateCurrency, Scan,
\* UnmarshalText, UnmarshalBinary and GobDecode
C22_Immutability ==
    /\ ret.op \in ValueOps =>
           /\ m = ret.recv
           /\ \A i \in 1..Len(ret.args) : ret.args[i] = ret.recv => m = ret.args[i]
    /\ m # ret.recv => ret.op \in InPlaceOps \cup Constructions

C22_Witness ==
    /\ ret.op = "Add"
    /\ ret.recv = ZeroValueMoney
    /\ ret.args = <<ZeroValueMoney>>
    /\ ret.res.status = "ok"
    /\ ret.res.outs[1].currency = getUnknownCurrency
    /\ m = ZeroValueMoney

\* the characters of the pieces of a rendered string, one after another
RECURSIVE Flat(_)
Flat(s) == IF s = <<>> THEN {} ELSE {s[1]} \cup Flat(Tail(s))

StartsWithMinus(s) == s # <<>> /\ s[1] = "-"

InParentheses(s) == Len(s) >= 2 /\ s[1] = "(" /\ s[Len(s)] = ")"

\* C24: negative styling follows the sign of the amount given, not of the
\* digits rendered.  FormatCurrency's string starts with "-" exactly when the
\* amount is below zero and FormatAccounting's is wrapped in "(" and ")"
\* exactly when it is; an amount of zero or more carries no "-", "(" or ")"
\* at all; and -1 * 10^-3 under the descriptor (2, "$", "$1", ".", ",") is
\* "-$0.00" and "(0.00)".
C24_NegativeStyling ==
    ret.op \in FormatOps =>
        LET amount == ret.args[2]
            s == ret.res.bytes
        IN /\ ret.op = "FormatCurrency" => (StartsWithMinus(s) <=> amount.value < 0)
           /\ ret.op = "FormatAccounting" => (InParentheses(s) <=> amount.value < 0)
           /\ amount.value >= 0 => Flat(s) \cap {"-", "(", ")"} = {}
           /\ ret.args = <<DollarFormatter, Dec(-1, -3)>>
                  => s = (IF ret.op = "FormatCurrency"
                          THEN <<"-", "$", "0", ".", "0", "0">>
                          ELSE <<"(", "0", ".", "0", "0", ")">>)

\* FormatCurrency of -0.001 under the dollar descriptor returned "-$0.00"
C24_Witness ==
    /\ ret.op = "FormatCurrency"
    /\ ret.args = <<DollarFormatter, Dec(-1, -3)>>
    /\ ret.res.bytes = <<"-", "$", "0", ".", "0", "0">>

\* what a Currency gives to its Formatter, and its code
DisplayMetadata(c) == <<c.Code, c.Fraction, c.Grapheme, c.Template, c.DecPoint, c.Thousand>>

FormattedOps == {"FormattedStringBank", "FormattedStringAccounting"}

\* the receiver of the call as its method sees it
Initialized == ensureInitialized(ret.recv)

\* the Money of the receiver's amount under the registry's "???"
ResolvedUnknown == Money(ret.recv.amount, GetCurrency(currencies, UnknownCurrencyCode))

\* C25: the unknown currency is one currency.  When FormattedStringBank or
\* FormattedStringAccounting is called on a Money of code "???" (a zero-value
\* Money, or one made by New, Scan or UnmarshalText), its currency has the
\* code, fraction, grapheme, template and separators of the registry's "???"
\* and the string returned is the one returned for the same amount under the
\* registry's "???".
C25_UnknownCurrencyConsistent ==
    (ret.op \in FormattedOps /\ Initialized.currency.Code = UnknownCurrencyCode)
        => /\ DisplayMetadata(Initialized.currency) = DisplayMetadata(ResolvedUnknown.currency)
           /\ ret.res = ApplyUnary(ret.op, ResolvedUnknown, ret.n)

====
